---- MODULE Spec2Model ----
(***************************************************************************)
(* Model of the rating / economy engine of secret_voldemort_bot            *)
(* (services.py), of the storage it runs on (db.py) and of the bot         *)
(* handlers that drive it (bot.py).                                        *)
(*                                                                         *)
(* Conventions.  A player or game id that is None in the code is NoId (0): *)
(* the code itself tests ids by truthiness.  A result_type that is None is *)
(* the string "none".  The lists of Player objects the code passes around  *)
(* are sets of player ids: every loop over them is per member and the      *)
(* lists come from SELECT ... WHERE id IN (...), so they hold no           *)
(* duplicates.  Team averages are exact rationals (sum, count); the code   *)
(* uses binary floats, which are exact for the team sizes explored here.   *)
(***************************************************************************)
EXTENDS Integers, Sequences, FiniteSets, TLC

\* ------------------------------------------------------------------ bounds
NumPlayers == 3     \* rows of the players table
MaxGames == 2       \* game ids in use
BotGames == 1       \* games the handler-level specification creates
DayPlayers == 2     \* players offered by the roster keyboards (the day list)
MaxFinished == 2    \* outcome buttons pressed
MaxPurchases == 1   \* rows of the purchases table
MaxBuyers == 1      \* players who use the shop
MaxRecomputes == 1  \* recompute buttons pressed
BluePool == 7       \* players a blue roster is drawn from (MAX_BLUE + 1)
RedPool == 5        \* players a red roster is drawn from (RED_LIMIT + 2)
MaxTeam == 2        \* members of a team whose average _mmr_delta is given
MaxTasks == 2       \* finalization handlers running as concurrent tasks
MaxSeason == 9       \* games of a season played by one lineup
MaxGap == 520       \* largest difference of the two averages given

\* -------------------------------------------------------- program constants
INITIAL_RATING == 3000
MAX_BLUE == 6
RED_LIMIT == 3

Players == 1 .. NumPlayers
GameIds == 1 .. MaxGames
DayList == 1 .. DayPlayers
Buyers == 1 .. MaxBuyers
NoId == 0
NoResult == "none"
ResultTypes == {"blue_laws", "blue_kill", "red_laws", "red_director"}
Teams == {"blue", "red"}
\* costs of SHOP_ITEMS
ShopCosts == {5, 15, 100, 300}

\* ------------------------------------------------------------ small helpers
Max2(a, b) == IF a >= b THEN a ELSE b

Abs(a) == IF a >= 0 THEN a ELSE -a

RECURSIVE SumRating(_, _)
SumRating(pl, S) ==
    IF S = {} THEN 0
    ELSE LET p == CHOOSE q \in S : TRUE
         IN pl[p].rating + SumRating(pl, S \ {p})

\* result_type.startswith('blue_')
StartsWithBlue(rt) == rt \in {"blue_laws", "blue_kill"}

Winner(rt) == IF StartsWithBlue(rt) THEN "blue" ELSE "red"

\* ------------------------------------------------------------------ rows
DefaultPlayer ==
    [rating |-> INITIAL_RATING,
     blue_wins |-> 0, red_wins |-> 0, vold_wins |-> 0,
     social_blue |-> 0, social_red |-> 0, social_vold |-> 0,
     killer_points |-> 0,
     galleons_balance |-> 0, win_streak |-> 0, lose_streak |-> 0]

NoGame ==
    [exists |-> FALSE, result_type |-> NoResult,
     voldemort_id |-> NoId, killer_id |-> NoId]

NewGame ==
    [exists |-> TRUE, result_type |-> NoResult,
     voldemort_id |-> NoId, killer_id |-> NoId]

\* --------------------------------------------------------------- rosters
PartIds(ps, g, teams) ==
    {r.player_id : r \in {x \in ps : x.game_id = g /\ x.team \in teams}}

\* get_team_rosters: (blue, red, vold) of a game, from the game object gobj
\* and the GameParticipant rows ps
GetTeamRosters(gobj, ps, g) ==
    IF ~gobj.exists
    THEN [blue |-> {}, red |-> {}, vold |-> NoId]
    ELSE [blue |-> PartIds(ps, g, {"blue"}),
          red |-> PartIds(ps, g, {"red", "voldemort"}),
          vold |-> gobj.voldemort_id]

\* a red side that leaves Voldemort out when he is not in the red roster
ExtendRedRosterOnly(red, vold) == red

ExtendRedWithVold(red, vold) ==
    IF vold = NoId THEN red ELSE red \cup {vold}

\* _team_avgs: each average as the pair (sum, max(len, 1))
TeamAvgs(pl, blue, red) ==
    [bsum |-> SumRating(pl, blue), bn |-> Max2(Cardinality(blue), 1),
     rsum |-> SumRating(pl, red), rn |-> Max2(Cardinality(red), 1)]

\* ------------------------------------------------------------------- MMR
\* a delta formula that forgets the cap of x
MmrDeltaUncapped(avgs, winner) ==
    LET num == Abs(avgs.bsum * avgs.rn - avgs.rsum * avgs.bn)
        x == num \div (10 * avgs.bn * avgs.rn)
        blue_is_strong == avgs.bsum * avgs.rn >= avgs.rsum * avgs.bn
    IN IF winner = "blue"
       THEN IF blue_is_strong
            THEN [blue |-> 51 - x, red |-> -(49 - x)]
            ELSE [blue |-> 51 + x, red |-> -(49 + x)]
       ELSE IF ~blue_is_strong
            THEN [blue |-> -(49 - x), red |-> 51 - x]
            ELSE [blue |-> -(49 + x), red |-> 51 + x]

\* a delta formula that is blind to which side was the stronger one
MmrDeltaFlat(avgs, winner) ==
    IF winner = "blue" THEN [blue |-> 51, red |-> -49]
    ELSE [blue |-> -49, red |-> 51]

\* a zero-sum policy: the loser gives up what the winner gains
MmrDeltaZeroSum(avgs, winner) ==
    LET num == Abs(avgs.bsum * avgs.rn - avgs.rsum * avgs.bn)
        x == num \div (10 * avgs.bn * avgs.rn)
        x_eff == IF x > 40 THEN 41 ELSE x
        blue_is_strong == avgs.bsum * avgs.rn >= avgs.rsum * avgs.bn
    IN IF winner = "blue"
       THEN IF blue_is_strong
            THEN [blue |-> 51 - x_eff, red |-> -(51 - x_eff)]
            ELSE [blue |-> 51 + x_eff, red |-> -(51 + x_eff)]
       ELSE IF ~blue_is_strong
            THEN [blue |-> -(51 - x_eff), red |-> 51 - x_eff]
            ELSE [blue |-> -(51 + x_eff), red |-> 51 + x_eff]

\* _mmr_delta on the averages bsum/bn and rsum/rn:
\* diff = |bsum/bn - rsum/rn|, x = floor(diff / 10)
MmrDelta(avgs, winner) ==
    LET num == Abs(avgs.bsum * avgs.rn - avgs.rsum * avgs.bn)
        x == num \div (10 * avgs.bn * avgs.rn)
        x_eff == IF x > 40 THEN 41 ELSE x
        blue_is_strong == avgs.bsum * avgs.rn >= avgs.rsum * avgs.bn
    IN IF winner = "blue"
       THEN IF blue_is_strong
            THEN [blue |-> 51 - x_eff, red |-> -(49 - x_eff)]
            ELSE [blue |-> 51 + x_eff, red |-> -(49 + x_eff)]
       ELSE IF ~blue_is_strong
            THEN [blue |-> -(49 - x_eff), red |-> 51 - x_eff]
            ELSE [blue |-> -(49 + x_eff), red |-> 51 + x_eff]

\* ---------------------------------------------------------------- social
\* social increments that count Voldemort as a red roster member
AddSocialRedWithVold(rt, blue, red, killer, vold, p) ==
    [social_blue |-> IF StartsWithBlue(rt) /\ p \in blue THEN 1 ELSE 0,
     social_red |-> IF ~StartsWithBlue(rt) /\ (p \in red \/ p = vold)
                    THEN 1 ELSE 0,
     killer_points |-> IF killer # NoId /\ p = killer THEN 1 ELSE 0,
     social_vold |-> IF rt = "red_director" /\ vold # NoId /\ p = vold
                     THEN 1 ELSE 0]

\* social increments that credit Voldemort for every red victory
AddSocialVoldOnRedWin(rt, blue, red, killer, vold, p) ==
    [social_blue |-> IF StartsWithBlue(rt) /\ p \in blue THEN 1 ELSE 0,
     social_red |-> IF ~StartsWithBlue(rt) /\ p \in red THEN 1 ELSE 0,
     killer_points |-> IF killer # NoId /\ p = killer THEN 1 ELSE 0,
     social_vold |-> IF ~StartsWithBlue(rt) /\ vold # NoId /\ p = vold
                     THEN 1 ELSE 0]

\* _add_social: the increments of one player, as a record of the four fields
AddSocial(rt, blue, red, killer, vold, p) ==
    [social_blue |-> IF StartsWithBlue(rt) /\ p \in blue THEN 1 ELSE 0,
     social_red |-> IF ~StartsWithBlue(rt) /\ p \in red THEN 1 ELSE 0,
     killer_points |-> IF killer # NoId /\ p = killer THEN 1 ELSE 0,
     social_vold |-> IF rt = "red_director" /\ vold # NoId /\ p = vold
                     THEN 1 ELSE 0]

\* -------------------------------------------------------------- galleons
\* a win bonus that keeps doubling past 6
WinStreakBonusDoubling(streak) ==
    CASE streak = 2 -> 2
      [] streak = 3 -> 4
      [] streak = 4 -> 8
      [] streak = 5 -> 16
      [] streak = 6 -> 32
      [] streak >= 7 -> 64
      [] OTHER -> 0

WinStreakBonus(streak) ==
    CASE streak = 2 -> 2
      [] streak = 3 -> 4
      [] streak = 4 -> 8
      [] streak = 5 -> 16
      [] streak = 6 -> 32
      [] streak >= 7 -> 100
      [] OTHER -> 0

\* a lose bonus paid on every loss from the second one
LoseStreakBonusEveryLoss(streak) ==
    CASE streak >= 2 /\ streak <= 6 -> 2 * ((streak + 1) \div 2)
      [] streak > 6 -> 6
      [] OTHER -> 0

LoseStreakBonus(streak) ==
    CASE streak = 2 -> 2
      [] streak = 4 -> 4
      [] streak = 6 -> 6
      [] streak > 6 -> 6
      [] OTHER -> 0

\* the players _apply_galleons_for_game writes to
GalleonTouched(blue, red, vold, killer) ==
    blue \cup red \cup (IF vold = NoId THEN {} ELSE {vold})
         \cup (IF killer = NoId THEN {} ELSE {killer})

\* galleons that pay the participation grant per list entry: twice to a
\* Voldemort who is also in the red roster
ApplyGalleonsPerListEntry(pl, rt, blue, red, vold, killer) ==
    LET participants == blue \cup red \cup (IF vold = NoId THEN {} ELSE {vold})
        red_ext == ExtendRedWithVold(red, vold)
        winners == IF Winner(rt) = "blue" THEN blue ELSE red_ext
        losers == IF Winner(rt) = "blue" THEN red_ext ELSE blue
        base == [p \in DOMAIN pl |->
                   [pl[p] EXCEPT !.galleons_balance =
                       @ + (IF p \in blue \cup red THEN 1 ELSE 0)
                         + (IF vold # NoId /\ p = vold THEN 1 ELSE 0)
                         + (IF vold # NoId /\ p = vold THEN 3 ELSE 0)
                         + (IF killer # NoId /\ p = killer THEN 5 ELSE 0)]]
        won == [p \in DOMAIN pl |->
                   IF p \in winners
                   THEN [base[p] EXCEPT
                           !.galleons_balance =
                               @ + 1 + WinStreakBonus(base[p].win_streak + 1),
                           !.win_streak = @ + 1,
                           !.lose_streak = 0]
                   ELSE base[p]]
    IN [p \in DOMAIN pl |->
           IF p \in losers
           THEN [won[p] EXCEPT
                   !.galleons_balance =
                       @ + LoseStreakBonus(won[p].lose_streak + 1),
                   !.lose_streak = @ + 1,
                   !.win_streak = 0]
           ELSE won[p]]

\* galleons that pay Voldemort's role bonus only when red wins
ApplyGalleonsRoleOnWin(pl, rt, blue, red, vold, killer) ==
    LET participants == blue \cup red \cup (IF vold = NoId THEN {} ELSE {vold})
        red_ext == ExtendRedWithVold(red, vold)
        winners == IF Winner(rt) = "blue" THEN blue ELSE red_ext
        losers == IF Winner(rt) = "blue" THEN red_ext ELSE blue
        base == [p \in DOMAIN pl |->
                   [pl[p] EXCEPT !.galleons_balance =
                       @ + (IF p \in participants THEN 1 ELSE 0)
                         + (IF vold # NoId /\ p = vold /\ Winner(rt) = "red"
                            THEN 3 ELSE 0)
                         + (IF killer # NoId /\ p = killer THEN 5 ELSE 0)]]
        won == [p \in DOMAIN pl |->
                   IF p \in winners
                   THEN [base[p] EXCEPT
                           !.galleons_balance =
                               @ + 1 + WinStreakBonus(base[p].win_streak + 1),
                           !.win_streak = @ + 1,
                           !.lose_streak = 0]
                   ELSE base[p]]
    IN [p \in DOMAIN pl |->
           IF p \in losers
           THEN [won[p] EXCEPT
                   !.galleons_balance =
                       @ + LoseStreakBonus(won[p].lose_streak + 1),
                   !.lose_streak = @ + 1,
                   !.win_streak = 0]
           ELSE won[p]]

\* galleons whose winning red side is the red roster alone, without Voldemort
ApplyGalleonsRosterWins(pl, rt, blue, red, vold, killer) ==
    LET participants == blue \cup red \cup (IF vold = NoId THEN {} ELSE {vold})
        red_ext == ExtendRedWithVold(red, vold)
        winners == IF Winner(rt) = "blue" THEN blue ELSE red
        losers == IF Winner(rt) = "blue" THEN red_ext ELSE blue
        base == [p \in DOMAIN pl |->
                   [pl[p] EXCEPT !.galleons_balance =
                       @ + (IF p \in participants THEN 1 ELSE 0)
                         + (IF vold # NoId /\ p = vold THEN 3 ELSE 0)
                         + (IF killer # NoId /\ p = killer THEN 5 ELSE 0)]]
        won == [p \in DOMAIN pl |->
                   IF p \in winners
                   THEN [base[p] EXCEPT
                           !.galleons_balance =
                               @ + 1 + WinStreakBonus(base[p].win_streak + 1),
                           !.win_streak = @ + 1,
                           !.lose_streak = 0]
                   ELSE base[p]]
    IN [p \in DOMAIN pl |->
           IF p \in losers
           THEN [won[p] EXCEPT
                   !.galleons_balance =
                       @ + LoseStreakBonus(won[p].lose_streak + 1),
                   !.lose_streak = @ + 1,
                   !.win_streak = 0]
           ELSE won[p]]

\* galleons that pay the participation grant to every player of the table
ApplyGalleonsToAll(pl, rt, blue, red, vold, killer) ==
    LET participants == blue \cup red \cup (IF vold = NoId THEN {} ELSE {vold})
        red_ext == ExtendRedWithVold(red, vold)
        winners == IF Winner(rt) = "blue" THEN blue ELSE red_ext
        losers == IF Winner(rt) = "blue" THEN red_ext ELSE blue
        base == [p \in DOMAIN pl |->
                   [pl[p] EXCEPT !.galleons_balance =
                       @ + 1
                         + (IF vold # NoId /\ p = vold THEN 3 ELSE 0)
                         + (IF killer # NoId /\ p = killer THEN 5 ELSE 0)]]
        won == [p \in DOMAIN pl |->
                   IF p \in winners
                   THEN [base[p] EXCEPT
                           !.galleons_balance =
                               @ + 1 + WinStreakBonus(base[p].win_streak + 1),
                           !.win_streak = @ + 1,
                           !.lose_streak = 0]
                   ELSE base[p]]
    IN [p \in DOMAIN pl |->
           IF p \in losers
           THEN [won[p] EXCEPT
                   !.galleons_balance =
                       @ + LoseStreakBonus(won[p].lose_streak + 1),
                   !.lose_streak = @ + 1,
                   !.win_streak = 0]
           ELSE won[p]]

\* _apply_galleons_for_game on the Player objects pl of the session
ApplyGalleonsForGame(pl, rt, blue, red, vold, killer) ==
    LET participants == blue \cup red \cup (IF vold = NoId THEN {} ELSE {vold})
        red_ext == ExtendRedWithVold(red, vold)
        winners == IF Winner(rt) = "blue" THEN blue ELSE red_ext
        losers == IF Winner(rt) = "blue" THEN red_ext ELSE blue
        base == [p \in DOMAIN pl |->
                   [pl[p] EXCEPT !.galleons_balance =
                       @ + (IF p \in participants THEN 1 ELSE 0)
                         + (IF vold # NoId /\ p = vold THEN 3 ELSE 0)
                         + (IF killer # NoId /\ p = killer THEN 5 ELSE 0)]]
        won == [p \in DOMAIN pl |->
                   IF p \in winners
                   THEN [base[p] EXCEPT
                           !.galleons_balance =
                               @ + 1 + WinStreakBonus(base[p].win_streak + 1),
                           !.win_streak = @ + 1,
                           !.lose_streak = 0]
                   ELSE base[p]]
    IN [p \in DOMAIN pl |->
           IF p \in losers
           THEN [won[p] EXCEPT
                   !.galleons_balance =
                       @ + LoseStreakBonus(won[p].lose_streak + 1),
                   !.lose_streak = @ + 1,
                   !.win_streak = 0]
           ELSE won[p]]

\* apply_ratings, lines 272-294 (the same statements as the loop body of
\* recompute_all_ratings): team deltas, then the social increments
ApplyRatingAndSocial(pl, rt, blue, red, vold, killer) ==
    LET red_ext == ExtendRedWithVold(red, vold)
        avgs == TeamAvgs(pl, blue, red_ext)
        d == MmrDelta(avgs, Winner(rt))
    IN [p \in DOMAIN pl |->
           LET inc == AddSocial(rt, blue, red, killer, vold, p)
           IN [pl[p] EXCEPT
                 !.rating = @ + (IF p \in blue THEN d.blue ELSE 0)
                              + (IF p \in red_ext THEN d.red ELSE 0),
                 !.social_blue = @ + inc.social_blue,
                 !.social_red = @ + inc.social_red,
                 !.killer_points = @ + inc.killer_points,
                 !.social_vold = @ + inc.social_vold]]

\* ------------------------------------------------------------- validator
\* a validator that checks the blue limit before the empty teams
ValidateRostersSizeFirst(blue, red, vold) ==
    IF Cardinality(blue) > MAX_BLUE THEN 2
    ELSE IF blue = {} \/ red = {} THEN 1
    ELSE IF vold = NoId THEN 3
    ELSE IF vold \in blue THEN 4
    ELSE 0

\* a validator that forgets the Voldemort-in-blue rule
ValidateRostersNoVoldRule(blue, red, vold) ==
    IF blue = {} \/ red = {} THEN 1
    ELSE IF Cardinality(blue) > MAX_BLUE THEN 2
    ELSE IF vold = NoId THEN 3
    ELSE 0

\* validate_rosters(blue, red, vold): the number of the first failing rule,
\* 0 when the rosters are correct
ValidateRostersCode(blue, red, vold) ==
    IF blue = {} \/ red = {} THEN 1
    ELSE IF Cardinality(blue) > MAX_BLUE THEN 2
    ELSE IF vold = NoId THEN 3
    ELSE IF vold \in blue THEN 4
    ELSE 0

ValidateRosters(blue, red, vold) == ValidateRostersCode(blue, red, vold) = 0

\* ------------------------------------------------------------ recompute
\* a finished-games filter that forgets the result_type condition
FinishedAnyResult(gs, g) == gs[g].exists

Finished(gs, g) == gs[g].exists /\ gs[g].result_type # NoResult

\* a replay order that takes the finished games by descending id
RECURSIVE FinishedDescendingFrom(_, _)
FinishedDescendingFrom(gs, k) ==
    IF k > MaxGames THEN << >>
    ELSE FinishedDescendingFrom(gs, k + 1)
           \o (IF Finished(gs, k) THEN << k >> ELSE << >>)

\* select(Game).where(Game.result_type.is_not(None)).order_by(Game.id.asc())
RECURSIVE FinishedFrom(_, _)
FinishedFrom(gs, k) ==
    IF k > MaxGames THEN << >>
    ELSE (IF Finished(gs, k) THEN << k >> ELSE << >>) \o FinishedFrom(gs, k + 1)

FinishedGames(gs) == FinishedFrom(gs, 1)

\* a reset that forgets the social counters
ResetRatingOnly(pl) ==
    [p \in DOMAIN pl |-> [pl[p] EXCEPT !.rating = INITIAL_RATING]]

\* recompute_all_ratings, lines 326-331
ResetRatings(pl) ==
    [p \in DOMAIN pl |->
        [pl[p] EXCEPT !.rating = INITIAL_RATING, !.social_blue = 0,
                      !.social_red = 0, !.social_vold = 0,
                      !.killer_points = 0]]

\* recompute_win_counters, lines 411-414
ResetWinCounters(pl) ==
    [p \in DOMAIN pl |->
        [pl[p] EXCEPT !.blue_wins = 0, !.red_wins = 0, !.vold_wins = 0]]

\* a reset that forgets the streaks
ResetBalanceOnly(pl) ==
    [p \in DOMAIN pl |-> [pl[p] EXCEPT !.galleons_balance = 0]]

\* recompute_all_galleons, lines 381-384
ResetGalleons(pl) ==
    [p \in DOMAIN pl |->
        [pl[p] EXCEPT !.galleons_balance = 0, !.win_streak = 0,
                      !.lose_streak = 0]]

\* the body of the loop of recompute_all_ratings for game g
RatingsForGame(pl, gobj, ps, g) ==
    ApplyRatingAndSocial(pl, gobj.result_type,
                         PartIds(ps, g, {"blue"}),
                         PartIds(ps, g, {"red", "voldemort"}),
                         gobj.voldemort_id, gobj.killer_id)

\* the body of the loop of recompute_all_galleons for game g
GalleonsForGame(pl, gobj, ps, g) ==
    LET r == GetTeamRosters(gobj, ps, g)
    IN ApplyGalleonsForGame(pl, gobj.result_type, r.blue, r.red, r.vold,
                            gobj.killer_id)

\* win counters that count a Voldemort of the red roster as a red winner too
WinCountersVoldAsRed(pl, gobj, ps, g) ==
    LET blue_ids == PartIds(ps, g, {"blue"})
        red_ids == PartIds(ps, g, {"red"})
        vold_part_ids == PartIds(ps, g, {"voldemort"})
        vold_id == IF gobj.voldemort_id # NoId THEN gobj.voldemort_id
                   ELSE IF vold_part_ids # {}
                        THEN CHOOSE v \in vold_part_ids : TRUE
                        ELSE NoId
    IN [p \in DOMAIN pl |->
           IF Winner(gobj.result_type) = "blue"
           THEN [pl[p] EXCEPT !.blue_wins =
                                 @ + (IF p \in blue_ids THEN 1 ELSE 0)]
           ELSE [pl[p] EXCEPT
                   !.red_wins = @ + (IF p \in red_ids
                                     THEN 1 ELSE 0),
                   !.vold_wins = @ + (IF vold_id # NoId /\ p = vold_id
                                      THEN 1 ELSE 0)]]

\* the body of the loop of recompute_win_counters for game g
WinCountersForGame(pl, gobj, ps, g) ==
    LET blue_ids == PartIds(ps, g, {"blue"})
        red_ids == PartIds(ps, g, {"red"})
        vold_part_ids == PartIds(ps, g, {"voldemort"})
        vold_id == IF gobj.voldemort_id # NoId THEN gobj.voldemort_id
                   ELSE IF vold_part_ids # {}
                        THEN CHOOSE v \in vold_part_ids : TRUE
                        ELSE NoId
    IN [p \in DOMAIN pl |->
           IF Winner(gobj.result_type) = "blue"
           THEN [pl[p] EXCEPT !.blue_wins =
                                 @ + (IF p \in blue_ids THEN 1 ELSE 0)]
           ELSE [pl[p] EXCEPT
                   !.red_wins = @ + (IF p \in red_ids /\ p # vold_id
                                     THEN 1 ELSE 0),
                   !.vold_wins = @ + (IF vold_id # NoId /\ p = vold_id
                                      THEN 1 ELSE 0)]]

RECURSIVE ReplayRatings(_, _, _, _)
ReplayRatings(pl, gs, ps, q) ==
    IF q = << >> THEN pl
    ELSE ReplayRatings(RatingsForGame(pl, gs[Head(q)], ps, Head(q)),
                       gs, ps, Tail(q))

RECURSIVE ReplayGalleons(_, _, _, _)
ReplayGalleons(pl, gs, ps, q) ==
    IF q = << >> THEN pl
    ELSE ReplayGalleons(GalleonsForGame(pl, gs[Head(q)], ps, Head(q)),
                        gs, ps, Tail(q))

RECURSIVE ReplayWinCounters(_, _, _, _)
ReplayWinCounters(pl, gs, ps, q) ==
    IF q = << >> THEN pl
    ELSE ReplayWinCounters(WinCountersForGame(pl, gs[Head(q)], ps, Head(q)),
                           gs, ps, Tail(q))

\* spent_by[p]: the sum of the cost of the Purchase rows of player p
RECURSIVE SpentBy(_, _)
SpentBy(pur, p) ==
    IF pur = << >> THEN 0
    ELSE (IF Head(pur).player_id = p THEN Head(pur).cost ELSE 0)
         + SpentBy(Tail(pur), p)

\* a recompute that forgets the purchases
KeepBalance(pl, pur) == pl

SubtractPurchases(pl, pur) ==
    [p \in DOMAIN pl |->
        [pl[p] EXCEPT !.galleons_balance = @ - SpentBy(pur, p)]]

\* recompute_win_counters run alone, to completion
RecomputeWinCounters(pl, gs, ps) ==
    ReplayWinCounters(ResetWinCounters(pl), gs, ps, FinishedGames(gs))

\* recompute_all_ratings run alone, to completion
RecomputeAllRatings(pl, gs, ps) ==
    RecomputeWinCounters(
        ReplayRatings(ResetRatings(pl), gs, ps, FinishedGames(gs)), gs, ps)

\* recompute_all_galleons run alone, to completion
RecomputeAllGalleons(pl, gs, ps, pur) ==
    SubtractPurchases(
        ReplayGalleons(ResetGalleons(pl), gs, ps, FinishedGames(gs)), pur)

\* db.delete_game: the Game row and, by cascade, its participants
DeleteGameRow(gs, g) == [gs EXCEPT ![g] = NoGame]

DeleteGameParts(ps, g) == {r \in ps : r.game_id # g}

\* ================================================================= state
VARIABLES
    players,         \* table players: id -> row
    games,           \* table games: id -> row (exists = FALSE: no such row)
    parts,           \* table game_participants: rows (game_id, player_id, team)
    purchases,       \* table purchases: rows (player_id, cost), in insertion order
    selected_ids,    \* FSM data "selected_ids" of the admin's roster dialog
    winnerKb,        \* games whose "setres:*" keyboard has been shown
    killKb,          \* (game, player) pairs whose "killpick" button has been shown
    games_finished,  \* the counter "games_finished" of bot_metrics.json
    clicks,          \* metric_click calls of the finalize and recompute buttons
    statsLog,        \* game_stats.json: one entry per _append_game_stats call
    fin,             \* the finalization handler in flight (set_result / picked_killer)
    rec,             \* the recompute handler in flight
    call,            \* the last direct call of a function of services.py
    setres,          \* per handler task: its set_result / picked_killer in flight
    shop,            \* per handler task: its shop_confirm in flight
    leaveKb          \* games whose "leave:confirm" button is on screen

vars == << players, games, parts, purchases, selected_ids, winnerKb, killKb,
           games_finished, clicks, statsLog, fin, rec, call, setres,
           shop, leaveKb >>

metricVars == << games_finished, clicks >>

dbVars == << players, games, parts, purchases >>

uiVars == << selected_ids, winnerKb, killKb >>

NoDelta == [blue |-> 0, red |-> 0]

\* the handler tasks that run set_result / picked_killer
Tasks == 1 .. MaxTasks

IdleTask ==
    [pc |-> "idle", game |-> NoId, gobj |-> NoGame, result_type |-> NoResult,
     killer_id |-> NoId]

IdleTasks == [h \in Tasks |-> IdleTask]

\* a shop_confirm task: the buyer, the item's cost and the Player object
\* its session holds
IdleShop == [pc |-> "idle", pid |-> NoId, cost |-> 0, p |-> DefaultPlayer]

IdleShops == [h \in Tasks |-> IdleShop]

\* no function has been called directly
NoCall == [fn |-> "none"]

\* the Player objects of a session, before any is loaded
NoSession == [p \in Players |-> DefaultPlayer]

IdleFin ==
    [pc |-> "idle", game |-> NoId, gobj |-> NoGame, blue |-> {}, red |-> {},
     d |-> NoDelta, sess |-> NoSession]

IdleRec ==
    [pc |-> "idle", round |-> 0, queue |-> << >>,
     gsnap |-> [g \in GameIds |-> NoGame], sess |-> NoSession]

Init ==
    /\ players = [p \in Players |-> DefaultPlayer]
    /\ games = [g \in GameIds |-> NoGame]
    /\ parts = {}
    /\ purchases = << >>
    /\ selected_ids = {}
    /\ winnerKb = {}
    /\ killKb = {}
    /\ games_finished = 0
    /\ clicks = [finalize |-> 0, recompute |-> 0]
    /\ statsLog = << >>
    /\ fin = IdleFin
    /\ rec = IdleRec
    /\ call = NoCall
    /\ setres = IdleTasks
    /\ shop = IdleShops
    /\ leaveKb = {}

Rosters(g) == GetTeamRosters(games[g], parts, g)

\* ------------------------------------------------------ what a commit writes
\* session.commit(): the unit of work UPDATEs, of every Player object of the
\* session, the columns whose value differs from the value the session last
\* loaded or flushed (base); every other column of the row keeps what the
\* database holds.
Pick(dbv, bv, sv) == IF sv # bv THEN sv ELSE dbv

Flush(db, base, s) ==
    [p \in Players |->
        [rating |-> Pick(db[p].rating, base[p].rating, s[p].rating),
         blue_wins |-> Pick(db[p].blue_wins, base[p].blue_wins, s[p].blue_wins),
         red_wins |-> Pick(db[p].red_wins, base[p].red_wins, s[p].red_wins),
         vold_wins |-> Pick(db[p].vold_wins, base[p].vold_wins, s[p].vold_wins),
         social_blue |->
             Pick(db[p].social_blue, base[p].social_blue, s[p].social_blue),
         social_red |->
             Pick(db[p].social_red, base[p].social_red, s[p].social_red),
         social_vold |->
             Pick(db[p].social_vold, base[p].social_vold, s[p].social_vold),
         killer_points |->
             Pick(db[p].killer_points, base[p].killer_points, s[p].killer_points),
         galleons_balance |->
             Pick(db[p].galleons_balance, base[p].galleons_balance,
                  s[p].galleons_balance),
         win_streak |->
             Pick(db[p].win_streak, base[p].win_streak, s[p].win_streak),
         lose_streak |->
             Pick(db[p].lose_streak, base[p].lose_streak, s[p].lose_streak)]]

\* The Player objects a finalization keeps after its first commit: of the
\* players T it loaded, the columns its second commit reads (the galleon and
\* streak columns); what it never reads again is left at the default.
LoadGalleonCols(db, T) ==
    [p \in Players |->
        IF p \in T
        THEN [DefaultPlayer EXCEPT
                !.galleons_balance = db[p].galleons_balance,
                !.win_streak = db[p].win_streak,
                !.lose_streak = db[p].lose_streak]
        ELSE DefaultPlayer]

\* The Player objects recompute_all_ratings holds after select(Player): it
\* never reads or writes the galleon and streak columns.
LoadRatingCols(db) ==
    [p \in Players |->
        [db[p] EXCEPT !.galleons_balance = 0, !.win_streak = 0,
                      !.lose_streak = 0]]

\* The Player objects recompute_all_galleons holds after select(Player): it
\* reads and writes the galleon and streak columns only.
LoadAllGalleonCols(db) == LoadGalleonCols(db, Players)

\* ============================================================== handlers
\* start_newgame -> db.create_game: the new row takes the next free rowid
StartNewGame(limit) ==
    LET used == {g \in GameIds : games[g].exists}
        top == IF used = {} THEN 0
               ELSE CHOOSE g \in used : \A h \in used : h <= g
    IN /\ top < limit
       /\ games' = [games EXCEPT ![top + 1] = NewGame]
       /\ UNCHANGED << leaveKb, shop, call, setres, players, parts, purchases, uiVars, metricVars,
                       statsLog, fin, rec >>

\* effective_limit
EffectiveLimit(team) == IF team = "blue" THEN MAX_BLUE ELSE RED_LIMIT

\* multiteam_entry / choose_source -> _open_multiteam_with_source
OpenMultiteam(team, g) ==
    /\ games[g].exists
    /\ LET r == Rosters(g)
       IN selected_ids' = IF team = "blue" THEN r.blue
                          ELSE r.red \ {r.vold}
    /\ UNCHANGED << leaveKb, shop, call, setres, dbVars, winnerKb, killKb, metricVars, statsLog,
                    fin, rec >>

\* toggle_player
TogglePlayer(team, g, pid) ==
    /\ games[g].exists
    /\ LET r == Rosters(g)
           blue_ids == r.blue
           red_ids == r.red \ {r.vold}
           refused == IF team = "blue"
                      THEN pid \in red_ids \/ pid = r.vold
                      ELSE pid \in blue_ids \/ pid = r.vold
       IN /\ ~refused
          /\ IF pid \in selected_ids
             THEN selected_ids' = selected_ids \ {pid}
             ELSE /\ Cardinality(selected_ids) < EffectiveLimit(team)
                  /\ selected_ids' = selected_ids \cup {pid}
    /\ UNCHANGED << leaveKb, shop, call, setres, dbVars, winnerKb, killKb, metricVars, statsLog,
                    fin, rec >>

\* clear_selection
ClearSelection ==
    /\ selected_ids # {}
    /\ selected_ids' = {}
    /\ UNCHANGED << leaveKb, shop, call, setres, dbVars, winnerKb, killKb, metricVars, statsLog,
                    fin, rec >>

\* services.set_team_roster
SetTeamRoster(ps, g, team, ids) ==
    {r \in ps : ~(r.game_id = g /\ r.team = team)}
        \cup {[game_id |-> g, player_id |-> p, team |-> team] : p \in ids}

\* save_selection
SaveSelection(team, g) ==
    /\ games[g].exists
    /\ parts' = SetTeamRoster(parts, g, team, selected_ids)
    /\ UNCHANGED << leaveKb, shop, call, setres, players, games, purchases, uiVars, metricVars,
                    statsLog, fin, rec >>

\* pick_voldemort -> services.set_voldemort
PickVoldemort(g, pid) ==
    /\ games[g].exists
    /\ pid \notin Rosters(g).blue
    /\ games' = [games EXCEPT ![g].voldemort_id = pid]
    /\ UNCHANGED << leaveKb, shop, call, setres, players, parts, purchases, uiVars, metricVars,
                    statsLog, fin, rec >>

\* choose_winner: shows the four "setres" buttons when the rosters validate
ChooseWinner(g) ==
    /\ games[g].exists
    /\ LET r == Rosters(g) IN ValidateRosters(r.blue, r.red, r.vold)
    /\ winnerKb' = winnerKb \cup {g}
    /\ UNCHANGED << leaveKb, shop, call, setres, dbVars, selected_ids, killKb, metricVars, statsLog,
                    fin, rec >>

\* set_result with "blue_kill": shows one "killpick" button per blue player
SetResultKill(g) ==
    /\ g \in winnerKb
    /\ games[g].exists
    /\ Rosters(g).vold # NoId
    /\ killKb' = killKb \cup {<< g, p >> : p \in Rosters(g).blue}
    /\ UNCHANGED << leaveKb, shop, call, setres, dbVars, selected_ids, winnerKb, metricVars, statsLog,
                    fin, rec >>

\* services.set_result_type_and_killer
SetResultTypeAndKiller(gobj, rt, killer) ==
    [gobj EXCEPT !.result_type = rt, !.killer_id = killer]

\* The first commit of set_result / picked_killer: the outcome is stored.
BeginFinalize(g, rt, killer) ==
    /\ fin.pc = "idle"
    /\ clicks.finalize < MaxFinished
    /\ clicks' = [clicks EXCEPT !.finalize = @ + 1]
    /\ games[g].exists
    /\ games' = [games EXCEPT ![g] = SetResultTypeAndKiller(@, rt, killer)]
    /\ fin' = [IdleFin EXCEPT !.pc = "set", !.game = g,
                              !.gobj = SetResultTypeAndKiller(games[g], rt, killer)]
    /\ UNCHANGED << leaveKb, shop, call, setres, players, parts, purchases, uiVars, games_finished,
                    statsLog, rec >>

\* set_result with an outcome other than "blue_kill"
SetResult(rt, g) ==
    /\ g \in winnerKb
    /\ rt # "blue_kill"
    /\ BeginFinalize(g, rt, NoId)

\* picked_killer
PickedKiller(g, k) ==
    /\ << g, k >> \in killKb
    /\ BeginFinalize(g, "blue_kill", k)

\* apply_ratings, line 269: 'Игра не завершена.'
ApplyRatingsRejects(gobj) == ~gobj.exists \/ gobj.result_type = NoResult

\* the player rows after apply_ratings' first commit on the game object gobj
ApplyRatingsPlayers(pl, gobj, ps, g) ==
    IF ApplyRatingsRejects(gobj) THEN pl
    ELSE LET r == GetTeamRosters(gobj, ps, g)
         IN ApplyRatingAndSocial(pl, gobj.result_type, r.blue, r.red, r.vold,
                                 gobj.killer_id)

\* apply_ratings up to its first commit (line 296): ratings and social points.
\* The Game object is the one the handler's session already holds.
ApplyRatingsCommit ==
    /\ fin.pc = "set"
    /\ ~ApplyRatingsRejects(fin.gobj)
    /\ LET g == fin.game
           r == GetTeamRosters(fin.gobj, parts, g)
           killer == fin.gobj.killer_id
           red_ext == ExtendRedWithVold(r.red, r.vold)
           T == GalleonTouched(r.blue, r.red, r.vold, killer)
       IN /\ players' = ApplyRatingsPlayers(players, fin.gobj, parts, g)
          /\ fin' = [fin EXCEPT
                       !.pc = "rated", !.blue = r.blue, !.red = r.red,
                       !.d = MmrDelta(TeamAvgs(players, r.blue, red_ext),
                                      Winner(fin.gobj.result_type)),
                       !.sess = LoadGalleonCols(players, T)]
    /\ UNCHANGED << leaveKb, shop, call, setres, games, parts, purchases, uiVars, metricVars,
                    statsLog, rec >>

\* apply_ratings from line 298: _apply_galleons_for_game and its commit, then
\* _append_game_stats, then the handler's metric_inc("games_finished")
ApplyGalleonsCommit ==
    /\ fin.pc = "rated"
    /\ LET vold == fin.gobj.voldemort_id
           killer == fin.gobj.killer_id
           s == ApplyGalleonsForGame(fin.sess, fin.gobj.result_type,
                                     fin.blue, fin.red, vold, killer)
       IN /\ players' = Flush(players, fin.sess, s)
          /\ statsLog' = Append(statsLog,
                 [game_id |-> fin.game, blue |-> fin.blue,
                  red |-> ExtendRedWithVold(fin.red, vold),
                  d_blue |-> fin.d.blue, d_red |-> fin.d.red])
    /\ games_finished' = games_finished + 1
    /\ fin' = IdleFin
    /\ UNCHANGED << leaveKb, shop, call, setres, games, parts, purchases, uiVars, clicks, rec >>

\* the handler dies between two commits (the storage raises, the process stops)
FinalizeAbort ==
    /\ fin.pc \in {"set", "rated"}
    /\ fin' = IdleFin
    /\ UNCHANGED << leaveKb, shop, call, setres, dbVars, uiVars, metricVars, statsLog, rec >>

\* admin_game_delete -> db.delete_game
AdminGameDelete(g) ==
    /\ games[g].exists
    /\ games' = DeleteGameRow(games, g)
    /\ parts' = DeleteGameParts(parts, g)
    /\ UNCHANGED << leaveKb, shop, call, setres, players, purchases, uiVars, metricVars, statsLog,
                    fin, rec >>

\* shop_confirm: the purchase row, then the balance
ShopConfirm(pid, cost) ==
    /\ Len(purchases) < MaxPurchases
    /\ players[pid].galleons_balance >= cost
    /\ purchases' = Append(purchases, [player_id |-> pid, cost |-> cost])
    /\ players' = [players EXCEPT ![pid].galleons_balance = @ - cost]
    /\ UNCHANGED << leaveKb, shop, call, setres, games, parts, uiVars, metricVars, statsLog, fin, rec >>

\* ------------------------------------------------------------ recomputes
\* the Game objects a SELECT of the finished games returns into a session
\* that already holds the objects gsnap: a row the session holds keeps the
\* attributes it was loaded with
GameObjects(gsnap, gs) ==
    [g \in GameIds |->
        IF gsnap[g].exists THEN gsnap[g]
        ELSE IF Finished(gs, g) THEN gs[g] ELSE NoGame]

\* admin_recompute -> recompute_all_ratings, lines 324-335: the reset and its
\* commit, then the list of finished games
RecomputeRatingsBegin ==
    /\ rec.pc = "idle"
    /\ clicks.recompute < MaxRecomputes
    /\ clicks' = [clicks EXCEPT !.recompute = @ + 1]
    /\ LET base == LoadRatingCols(players)
           s == ResetRatings(base)
       IN /\ players' = Flush(players, base, s)
          /\ rec' = [pc |-> "ratings", round |-> 1,
                     queue |-> FinishedGames(games),
                     gsnap |-> GameObjects(IdleRec.gsnap, games),
                     sess |-> s]
    /\ UNCHANGED << leaveKb, shop, call, setres, games, parts, purchases, uiVars, games_finished,
                    statsLog, fin >>

\* recompute_all_ratings, lines 336-373: one game and its commit
RecomputeRatingsGame ==
    /\ rec.pc = "ratings"
    /\ rec.queue # << >>
    /\ LET g == Head(rec.queue)
           s == RatingsForGame(rec.sess, rec.gsnap[g], parts, g)
       IN /\ players' = Flush(players, rec.sess, s)
          /\ rec' = [rec EXCEPT !.queue = Tail(@), !.sess = s]
    /\ UNCHANGED << leaveKb, shop, call, setres, games, parts, purchases, uiVars, metricVars,
                    statsLog, fin >>

\* recompute_win_counters, lines 409-415: the reset and its commit
RecomputeWinsReset ==
    /\ \/ rec.pc = "ratings" /\ rec.queue = << >>
       \/ rec.pc = "wins_reset"
    /\ LET s == ResetWinCounters(rec.sess)
       IN /\ players' = Flush(players, rec.sess, s)
          /\ rec' = [rec EXCEPT !.pc = "wins", !.sess = s]
    /\ UNCHANGED << leaveKb, shop, call, setres, games, parts, purchases, uiVars, metricVars,
                    statsLog, fin >>

\* recompute_win_counters, lines 417-447: all finished games, one commit.
\* admin_recompute runs recompute_win_counters a second time after
\* recompute_all_ratings has run it.
RecomputeWinsCount ==
    /\ rec.pc = "wins"
    /\ LET objs == GameObjects(rec.gsnap, games)
           s == ReplayWinCounters(rec.sess, objs, parts, FinishedGames(games))
       IN /\ players' = Flush(players, rec.sess, s)
          /\ rec' = IF rec.round = 1
                    THEN [rec EXCEPT !.pc = "wins_reset", !.round = 2,
                                     !.gsnap = objs, !.sess = s]
                    ELSE IdleRec
    /\ UNCHANGED << leaveKb, shop, call, setres, games, parts, purchases, uiVars, metricVars,
                    statsLog, fin >>

\* admin_recompute_galleons -> recompute_all_galleons, lines 379-388
RecomputeGalleonsBegin ==
    /\ rec.pc = "idle"
    /\ clicks.recompute < MaxRecomputes
    /\ clicks' = [clicks EXCEPT !.recompute = @ + 1]
    /\ LET base == LoadAllGalleonCols(players)
           s == ResetGalleons(base)
       IN /\ players' = Flush(players, base, s)
          /\ rec' = [pc |-> "galleons", round |-> 0,
                     queue |-> FinishedGames(games),
                     gsnap |-> GameObjects(IdleRec.gsnap, games),
                     sess |-> s]
    /\ UNCHANGED << leaveKb, shop, call, setres, games, parts, purchases, uiVars, games_finished,
                    statsLog, fin >>

\* recompute_all_galleons, lines 389-392: one game and its commit
RecomputeGalleonsGame ==
    /\ rec.pc = "galleons"
    /\ rec.queue # << >>
    /\ LET g == Head(rec.queue)
           s == GalleonsForGame(rec.sess, rec.gsnap[g], parts, g)
       IN /\ players' = Flush(players, rec.sess, s)
          /\ rec' = [rec EXCEPT !.queue = Tail(@), !.sess = s]
    /\ UNCHANGED << leaveKb, shop, call, setres, games, parts, purchases, uiVars, metricVars,
                    statsLog, fin >>

\* recompute_all_galleons, lines 394-404: the recorded purchases
RecomputeGalleonsSpend ==
    /\ rec.pc = "galleons"
    /\ rec.queue = << >>
    /\ LET s == SubtractPurchases(rec.sess, purchases)
       IN players' = Flush(players, rec.sess, s)
    /\ rec' = IdleRec
    /\ UNCHANGED << leaveKb, shop, call, setres, games, parts, purchases, uiVars, metricVars,
                    statsLog, fin >>

\* the recompute handler dies between two commits
RecomputeAbort ==
    /\ rec.pc # "idle"
    /\ rec' = IdleRec
    /\ UNCHANGED << leaveKb, shop, call, setres, dbVars, uiVars, metricVars, statsLog, fin >>

\* ================================================================== specs
\* ---- Spec: one admin operating the bot from an empty games table.
\* Rosters are edited while no game is finished and no handler is in flight.
Quiet ==
    /\ fin.pc = "idle"
    /\ rec.pc = "idle"
    /\ \A g \in GameIds : ~Finished(games, g)

Edit ==
    \/ StartNewGame(BotGames)
    \/ \E team \in Teams, g \in GameIds : OpenMultiteam(team, g)
    \/ \E team \in Teams, g \in GameIds, pid \in DayList :
           TogglePlayer(team, g, pid)
    \/ ClearSelection
    \/ \E team \in Teams, g \in GameIds : SaveSelection(team, g)
    \/ \E g \in GameIds, pid \in DayList : PickVoldemort(g, pid)

Finalize ==
    \/ \E g \in GameIds : ChooseWinner(g)
    \/ \E g \in GameIds : SetResultKill(g)
    \/ \E g \in GameIds, rt \in ResultTypes : SetResult(rt, g)
    \/ \E g \in GameIds, k \in Players : PickedKiller(g, k)
    \/ ApplyRatingsCommit
    \/ ApplyGalleonsCommit

Shop == \E pid \in Buyers, cost \in ShopCosts : ShopConfirm(pid, cost)

Next ==
    \/ Quiet /\ Edit
    \/ Finalize
    \/ Shop

Spec == Init /\ [][Next]_vars

\* ---- SpecAdmin: two games whose rosters are saved and whose winner and
\* killer keyboards are on screen; finalizations and the admin's recomputes
\* run as concurrent tasks, and a handler may die between two commits.
LineupSeq ==
    << [blue |-> {1}, red |-> {2}, vold |-> 2],
       [blue |-> {2}, red |-> {1}, vold |-> 3],
       [blue |-> {1, 2}, red |-> {3}, vold |-> 3] >>

Lineups == {LineupSeq[i] : i \in DOMAIN LineupSeq}

\* the evenings played: consecutive games take consecutive lineups
Schedules ==
    {[g \in GameIds |-> LineupSeq[((i + g) % Len(LineupSeq)) + 1]] :
        i \in DOMAIN LineupSeq}

LineupParts(g, l) ==
    {[game_id |-> g, player_id |-> p, team |-> "blue"] : p \in l.blue}
      \cup {[game_id |-> g, player_id |-> p, team |-> "red"] : p \in l.red}

GameRow(l, o) ==
    [NewGame EXCEPT !.voldemort_id = l.vold, !.result_type = o.result_type,
                    !.killer_id = o.killer_id]

Unfinished == [result_type |-> NoResult, killer_id |-> NoId]

InitAdmin ==
    /\ players = [p \in Players |-> DefaultPlayer]
    /\ \E l \in Schedules :
          /\ games = [g \in GameIds |-> GameRow(l[g], Unfinished)]
          /\ parts = UNION {LineupParts(g, l[g]) : g \in GameIds}
          /\ killKb = {<< g, p >> \in GameIds \X Players : p \in l[g].blue}
    /\ purchases = << >>
    /\ selected_ids = {}
    /\ winnerKb = GameIds
    /\ games_finished = 0
    /\ clicks = [finalize |-> 0, recompute |-> 0]
    /\ statsLog = << >>
    /\ fin = IdleFin
    /\ rec = IdleRec
    /\ call = NoCall
    /\ setres = IdleTasks
    /\ shop = IdleShops
    /\ leaveKb = {}

Recompute ==
    \/ RecomputeRatingsBegin
    \/ RecomputeRatingsGame
    \/ RecomputeWinsReset
    \/ RecomputeWinsCount
    \/ RecomputeGalleonsBegin
    \/ RecomputeGalleonsGame
    \/ RecomputeGalleonsSpend

NextAdmin ==
    \/ \E g \in GameIds, rt \in ResultTypes : SetResult(rt, g)
    \/ \E g \in GameIds, k \in Players : PickedKiller(g, k)
    \/ ApplyRatingsCommit
    \/ ApplyGalleonsCommit
    \/ Recompute
    \/ FinalizeAbort
    \/ RecomputeAbort

SpecAdmin == InitAdmin /\ [][NextAdmin]_vars

\* ---- SpecContract: the functions of services.py called one at a time, each
\* to completion, on a database holding two games with saved rosters; a game
\* row is unfinished or carries any outcome the columns can hold.
Outcomes(l) ==
    {Unfinished}
      \cup {[result_type |-> rt, killer_id |-> NoId] : rt \in ResultTypes}
      \cup {[result_type |-> "blue_kill", killer_id |-> k] : k \in l.blue}

InitContract ==
    /\ players = [p \in Players |-> DefaultPlayer]
    /\ \E l \in Schedules :
          \E o \in [GameIds -> UNION {Outcomes(x) : x \in Lineups}] :
             /\ \A g \in GameIds : o[g] \in Outcomes(l[g])
             /\ games = [g \in GameIds |-> GameRow(l[g], o[g])]
             /\ parts = UNION {LineupParts(g, l[g]) : g \in GameIds}
    /\ purchases = << >>
    /\ selected_ids = {}
    /\ winnerKb = {}
    /\ killKb = {}
    /\ games_finished = 0
    /\ clicks = [finalize |-> 0, recompute |-> 0]
    /\ statsLog = << >>
    /\ fin = IdleFin
    /\ rec = IdleRec
    /\ call = NoCall
    /\ setres = IdleTasks
    /\ shop = IdleShops
    /\ leaveKb = {}

\* apply_ratings run to completion: both commits of one session, then the
\* stats entry
ApplyRatingsWhole(pl, gobj, ps, g) ==
    IF ApplyRatingsRejects(gobj) THEN pl
    ELSE LET r == GetTeamRosters(gobj, ps, g)
         IN ApplyGalleonsForGame(ApplyRatingsPlayers(pl, gobj, ps, g),
                                 gobj.result_type, r.blue, r.red, r.vold,
                                 gobj.killer_id)

ApplyRatingsCall(g) ==
    /\ Len(statsLog) < MaxFinished
    /\ ~ApplyRatingsRejects(games[g])
    /\ LET r == Rosters(g)
           red_ext == ExtendRedWithVold(r.red, r.vold)
           d == MmrDelta(TeamAvgs(players, r.blue, red_ext),
                         Winner(games[g].result_type))
       IN /\ players' = ApplyRatingsWhole(players, games[g], parts, g)
          /\ statsLog' = Append(statsLog,
                 [game_id |-> g, blue |-> r.blue, red |-> red_ext,
                  d_blue |-> d.blue, d_red |-> d.red])
    /\ UNCHANGED << leaveKb, shop, call, setres, games, parts, purchases, uiVars, metricVars, fin, rec >>

RecomputeAllRatingsCall ==
    /\ players' = RecomputeAllRatings(players, games, parts)
    /\ UNCHANGED << leaveKb, shop, call, setres, games, parts, purchases, uiVars, metricVars, statsLog,
                    fin, rec >>

RecomputeAllGalleonsCall ==
    /\ players' = RecomputeAllGalleons(players, games, parts, purchases)
    /\ UNCHANGED << leaveKb, shop, call, setres, games, parts, purchases, uiVars, metricVars, statsLog,
                    fin, rec >>

NextContract ==
    \/ \E g \in GameIds : ApplyRatingsCall(g)
    \/ RecomputeAllRatingsCall
    \/ RecomputeAllGalleonsCall
    \/ \E g \in GameIds : AdminGameDelete(g)
    \/ Shop

SpecContract == InitContract /\ [][NextContract]_vars

\* ================================================================ claims
\* game g has an entry in game_stats.json: apply_ratings ran on it to the end
AlreadyScored(g) == \E i \in DOMAIN statsLog : statsLog[i].game_id = g

TimesScored(g) == Cardinality({i \in DOMAIN statsLog : statsLog[i].game_id = g})

\* the step is the first commit of apply_ratings in the finalization in flight
RatingStep == fin.pc = "set" /\ fin'.pc = "rated"

\* C1: a finalized match is scored exactly once: when apply_ratings runs on a
\* game that apply_ratings has already scored (no recompute in between), it is
\* rejected and adds nothing to any player a second time.
C1_ScoredExactlyOnce ==
    [][(RatingStep /\ AlreadyScored(fin.game)) => players' = players]_vars

\* what recompute_all_ratings followed by recompute_all_galleons leaves in
\* the players table
FullRebuild(pl, gs, ps, pur) ==
    RecomputeAllGalleons(RecomputeAllRatings(pl, gs, ps), gs, ps, pur)

\* no handler is in flight and every finished game was applied exactly once
EachGameAppliedOnce ==
    /\ fin.pc = "idle"
    /\ rec.pc = "idle"
    /\ \A g \in GameIds : TimesScored(g) = IF Finished(games, g) THEN 1 ELSE 0

\* C2: after game creations, roster edits and live finalizations, each game
\* applied once, every field of every player equals what recompute_all_ratings
\* and recompute_all_galleons produce from the same games and purchases.
C2_LiveEqualsRecompute ==
    EachGameAppliedOnce => players = FullRebuild(players, games, parts, purchases)

\* C5: applying one match is atomic: a commit that changes a player's rating
\* for a match carries that player's galleon and streak update of the match
\* too, so no committed state holds one part of the match without the other.
C5_AppliedAtomically ==
    [][\A p \in Players :
          players'[p].rating # players[p].rating
            => << players'[p].win_streak, players'[p].lose_streak >>
                 # << players[p].win_streak, players[p].lose_streak >>]_vars

\* C6: finalizations and recomputes are serialized: no state has a
\* finalization and a recompute both between their first and last commit.
C6_Serialized == ~(fin.pc # "idle" /\ rec.pc # "idle")

\* C7: a recompute is all-or-nothing: a recompute's commit that is not its
\* last one (the pass may stop after it) leaves the players table as it was
\* before the recompute started.
C7_AllOrNothing ==
    [][(rec' # rec /\ rec'.pc # "idle") => players' = players]_vars

\* C10: match application re-checks the roster rules: apply_ratings on a game
\* whose rosters fail validate_rosters at that moment changes no player.
C10_RostersRechecked ==
    [][(RatingStep
         /\ LET r == GetTeamRosters(fin.gobj, parts, fin.game)
            IN ~ValidateRosters(r.blue, r.red, r.vold))
         => players' = players]_vars

\* no such game in the games and participants tables
WithoutGame(gs, ps, g) ==
    [games |-> DeleteGameRow(gs, g), parts |-> DeleteGameParts(ps, g)]

\* C3: recompute_all_ratings run twice in succession, and likewise
\* recompute_all_galleons, leaves after the second run the table the first run
\* left.
C3_RecomputeIdempotent ==
    LET r1 == RecomputeAllRatings(players, games, parts)
        g1 == RecomputeAllGalleons(players, games, parts, purchases)
    IN /\ RecomputeAllRatings(r1, games, parts) = r1
       /\ RecomputeAllGalleons(g1, games, parts, purchases) = g1

\* a game was scored twice and a purchase made, and both recomputes have run
\* since
C3_Witness ==
    /\ \E g \in GameIds : Finished(games, g) /\ TimesScored(g) = 2
    /\ purchases # << >>
    /\ players = FullRebuild(players, games, parts, purchases)
    /\ \E p \in Players : players[p].blue_wins + players[p].red_wins > 0

\* admin_recompute: recompute_all_ratings, then recompute_win_counters
AdminRecompute(pl, gs, ps) ==
    RecomputeWinCounters(RecomputeAllRatings(pl, gs, ps), gs, ps)

\* the table recomputed for freshly registered players over the history
\* without game g
NeverPlayed(g) ==
    LET h == WithoutGame(games, parts, g)
    IN FullRebuild([p \in Players |-> DefaultPlayer], h.games, h.parts,
                   purchases)

C8_UnsetContributesNothing ==
    \A g \in GameIds :
        (games[g].exists /\ games[g].result_type = NoResult) =>
            LET h == WithoutGame(games, parts, g)
            IN /\ ApplyRatingsWhole(players, games[g], parts, g) = players
               /\ RecomputeAllRatings(players, games, parts)
                    = RecomputeAllRatings(players, h.games, h.parts)
               /\ RecomputeAllGalleons(players, games, parts, purchases)
                    = RecomputeAllGalleons(players, h.games, h.parts, purchases)
               /\ RecomputeWinCounters(players, games, parts)
                    = RecomputeWinCounters(players, h.games, h.parts)

\* an unfinished game with saved rosters stands beside a game scored twice,
\* and both recomputes have run since
C8_Witness ==
    /\ \E g \in GameIds :
          /\ games[g].exists
          /\ games[g].result_type = NoResult
          /\ Rosters(g).blue # {}
          /\ Rosters(g).red # {}
    /\ \E h \in GameIds : Finished(games, h) /\ TimesScored(h) = 2
    /\ players = FullRebuild(players, games, parts, purchases)
    /\ \E p \in Players : players[p].blue_wins + players[p].red_wins > 0

\* the step is a complete run of apply_ratings on game g
ApplyStep(g) ==
    /\ Len(statsLog') = Len(statsLog) + 1
    /\ statsLog'[Len(statsLog')].game_id = g

\* C9: apply_ratings on a game whose outcome is blue_kill but whose killer_id
\* is null is rejected before any player field is changed.
C9_KillerRequired ==
    [][\A g \in GameIds :
          (ApplyStep(g) /\ games[g].result_type = "blue_kill"
                        /\ games[g].killer_id = NoId)
            => players' = players]_vars

\* ---- SpecValidator: validate_rosters called on a game whose saved rosters
\* and Voldemort are any the tables can hold.
RosterIds == 1 .. BluePool

InitValidator ==
    /\ players = [p \in RosterIds |-> DefaultPlayer]
    /\ \E b \in SUBSET RosterIds, r \in SUBSET (1 .. RedPool),
          v \in {NoId} \cup RosterIds :
          /\ games = [g \in GameIds |->
                        IF g = 1 THEN [NewGame EXCEPT !.voldemort_id = v]
                        ELSE NoGame]
          /\ parts = LineupParts(1, [blue |-> b, red |-> r])
    /\ purchases = << >>
    /\ selected_ids = {}
    /\ winnerKb = {}
    /\ killKb = {}
    /\ games_finished = 0
    /\ clicks = [finalize |-> 0, recompute |-> 0]
    /\ statsLog = << >>
    /\ fin = IdleFin
    /\ rec = IdleRec
    /\ call = NoCall
    /\ setres = IdleTasks
    /\ shop = IdleShops
    /\ leaveKb = {}

\* validate_rosters(session, game_id): the rosters get_team_rosters returns,
\* the number of the failing rule (the message) and ok
ValidateRostersCall(g) ==
    /\ games[g].exists
    /\ LET r == Rosters(g)
       IN call' = [fn |-> "validate_rosters", game_id |-> g,
                   blue |-> r.blue, red |-> r.red, vold |-> r.vold,
                   code |-> ValidateRostersCode(r.blue, r.red, r.vold),
                   ok |-> ValidateRosters(r.blue, r.red, r.vold)]
    /\ UNCHANGED << leaveKb, shop, setres, dbVars, uiVars, metricVars, statsLog, fin, rec >>

NextValidator == \E g \in GameIds : ValidateRostersCall(g)

SpecValidator == InitValidator /\ [][NextValidator]_vars

\* validate_rosters has returned
Validated == call.fn = "validate_rosters"

\* C11: validate_rosters returns ok = false for every roster in which the
\* chosen Voldemort is also a member of the blue team, whatever the red team
\* contains.
C11_VoldemortInBlueRejected ==
    (Validated /\ call.vold # NoId /\ call.vold \in call.blue) => ~call.ok

\* rosters that pass every earlier rule, with Voldemort in blue and in red,
\* were rejected by the last rule
C11_Witness ==
    /\ Validated
    /\ call.vold \in call.blue
    /\ call.vold \in call.red
    /\ Cardinality(call.blue) = MAX_BLUE
    /\ call.code = 4
    /\ ~call.ok

\* C12: validate_rosters returns ok = false for every roster whose red team,
\* Voldemort not counted, has more than 3 members.
C12_RedLimitEnforced ==
    (Validated /\ Cardinality(call.red \ {call.vold}) > RED_LIMIT) => ~call.ok

\* C13: validate_rosters reports the first failing rule of: a team is empty
\* (a chosen Voldemort with no red participant leaves the red team empty),
\* blue is larger than MAX_BLUE, no Voldemort is chosen, Voldemort is in blue;
\* and it returns ok = true only when none of them fails.
C13_FirstFailureWins ==
    Validated =>
        LET empty == call.blue = {} \/ call.red = {}
            oversize == Cardinality(call.blue) > MAX_BLUE
            novold == call.vold = NoId
            inblue == call.vold \in call.blue
        IN /\ empty => call.code = 1
           /\ (~empty /\ oversize) => call.code = 2
           /\ (~empty /\ ~oversize /\ novold) => call.code = 3
           /\ (~empty /\ ~oversize /\ ~novold /\ inblue) => call.code = 4
           /\ call.ok <=> ~(empty \/ oversize \/ novold \/ inblue)
           /\ (PartIds(parts, call.game_id, {"red", "voldemort"}) = {}
                 /\ games[call.game_id].voldemort_id # NoId) => call.code = 1

\* every rule fails at once (no red participant, Voldemort chosen and in an
\* oversize blue team) and the empty team is what was reported
C13_Witness ==
    /\ Validated
    /\ call.red = {}
    /\ Cardinality(call.blue) > MAX_BLUE
    /\ call.vold \in call.blue
    /\ call.code = 1
    /\ ~call.ok

\* ---- SpecMmr: _mmr_delta called on the averages of two teams of 1 to
\* MaxTeam players; one team's average is INITIAL_RATING and the other's is
\* above it by up to MaxGap.
Gaps(n) == 0 .. (n * MaxGap)

AvgInputs ==
    UNION {
      {[bsum |-> bn * INITIAL_RATING + k, bn |-> bn,
        rsum |-> rn * INITIAL_RATING, rn |-> rn] : k \in Gaps(bn)}
        \cup {[bsum |-> bn * INITIAL_RATING, bn |-> bn,
               rsum |-> rn * INITIAL_RATING + k, rn |-> rn] : k \in Gaps(rn)}
      : << bn, rn >> \in (1 .. MaxTeam) \X (1 .. MaxTeam)}

\* the call is made: the arguments are bound, nothing is returned yet
InitMmr ==
    /\ players = [p \in Players |-> DefaultPlayer]
    /\ games = [g \in GameIds |-> NoGame]
    /\ parts = {}
    /\ purchases = << >>
    /\ selected_ids = {}
    /\ winnerKb = {}
    /\ killKb = {}
    /\ games_finished = 0
    /\ clicks = [finalize |-> 0, recompute |-> 0]
    /\ statsLog = << >>
    /\ fin = IdleFin
    /\ rec = IdleRec
    /\ setres = IdleTasks
    /\ shop = IdleShops
    /\ leaveKb = {}
    /\ \E a \in AvgInputs, w \in Teams :
          call = [fn |-> "_mmr_delta", avgs |-> a, winner |-> w,
                  returned |-> FALSE, d |-> NoDelta]

\* _mmr_delta(blue_avg, red_avg, winner) runs and returns
MmrDeltaCall ==
    /\ call.fn = "_mmr_delta"
    /\ ~call.returned
    /\ call' = [call EXCEPT !.returned = TRUE,
                            !.d = MmrDelta(call.avgs, call.winner)]
    /\ UNCHANGED << leaveKb, shop, setres, dbVars, uiVars, metricVars, statsLog, fin, rec >>

NextMmr == MmrDeltaCall

SpecMmr == InitMmr /\ [][NextMmr]_vars

\* _mmr_delta has returned
Rated == call.fn = "_mmr_delta" /\ call.returned

\* |blue_avg - red_avg| as the fraction DiffNum / DiffDen
DiffNum(a) == Abs(a.bsum * a.rn - a.rsum * a.bn)

DiffDen(a) == a.bn * a.rn

\* C14: for every pair of team averages and either winner, _mmr_delta returns
\* integer deltas of opposite sign: the winner's delta is strictly positive
\* and the loser's delta is strictly negative.
C14_OppositeSigns ==
    Rated =>
        /\ call.d.blue \in Int
        /\ call.d.red \in Int
        /\ call.winner = "blue" => (call.d.blue > 0 /\ call.d.red < 0)
        /\ call.winner = "red" => (call.d.red > 0 /\ call.d.blue < 0)

\* the stronger side won with the averages more than 410 apart: the smallest
\* deltas of the formula
C14_Witness ==
    /\ Rated
    /\ DiffNum(call.avgs) > 410 * DiffDen(call.avgs)
    /\ call.winner = "red"
    /\ call.d = [blue |-> -8, red |-> 10]

\* the side _mmr_delta treats as the stronger one (blue on a tie)
StrongSide(a) == IF a.bsum * a.rn >= a.rsum * a.bn THEN "blue" ELSE "red"

OtherSide(side) == IF side = "blue" THEN "red" ELSE "blue"

\* C15: for diff = |blue_avg - red_avg| <= 400 and x = floor(diff / 10),
\* _mmr_delta gives the stronger side +(51 - x) and the weaker side -(49 - x)
\* when the stronger side wins, and the weaker side +(51 + x) and the stronger
\* side -(49 + x) when the weaker side wins; on a tie blue is the strong side
\* and the result is winner +51, loser -49.
C15_ContinuousTier ==
    (Rated /\ DiffNum(call.avgs) <= 400 * DiffDen(call.avgs)) =>
        LET a == call.avgs
            x == DiffNum(a) \div (10 * DiffDen(a))
            strong == StrongSide(a)
            weak == OtherSide(strong)
        IN /\ call.winner = strong =>
                 (call.d[strong] = 51 - x /\ call.d[weak] = -(49 - x))
           /\ call.winner = weak =>
                 (call.d[weak] = 51 + x /\ call.d[strong] = -(49 + x))
           /\ DiffNum(a) = 0 =>
                 /\ strong = "blue"
                 /\ call.d[call.winner] = 51
                 /\ call.d[OtherSide(call.winner)] = -49

\* the averages of two teams of two are 395.5 apart (x = 39) and the weaker
\* side, blue, won
C15_Witness ==
    /\ Rated
    /\ call.avgs.bn = 2
    /\ call.avgs.rn = 2
    /\ call.avgs.rsum - call.avgs.bsum = 791
    /\ call.winner = "blue"
    /\ call.d = [blue |-> 90, red |-> -88]

\* C16: for every diff = |blue_avg - red_avg| strictly greater than 400
\* (400 < diff < 410 included) _mmr_delta uses x = 41: +10 / -8 when the
\* stronger side wins, +92 / -90 when the weaker side wins.
C16_CappedAbove400 ==
    (Rated /\ DiffNum(call.avgs) > 400 * DiffDen(call.avgs)) =>
        LET strong == StrongSide(call.avgs)
            weak == OtherSide(strong)
        IN /\ call.winner = strong =>
                 (call.d[strong] = 10 /\ call.d[weak] = -8)
           /\ call.winner = weak =>
                 (call.d[weak] = 92 /\ call.d[strong] = -90)

\* the entry the last complete run of apply_ratings appended to the stats
LastStats == statsLog[Len(statsLog)]

\* C17: the red strength used for the rating delta is the average over the
\* red roster united with Voldemort, his rating counted once whether or not he
\* is in the red roster; and each member of that extended red team receives
\* the red delta exactly once.
C17_RedSideIncludesVoldemortOnce ==
    [][\A g \in GameIds :
          (ApplyStep(g) /\ Rosters(g).vold # NoId) =>
            LET r == Rosters(g)
                others == r.red \ {r.vold}
                avgs == [bsum |-> SumRating(players, r.blue),
                         bn |-> Max2(Cardinality(r.blue), 1),
                         rsum |-> SumRating(players, others)
                                    + players[r.vold].rating,
                         rn |-> Cardinality(others) + 1]
                d == MmrDelta(avgs, Winner(games[g].result_type))
            IN /\ LastStats'.d_red = d.red
               /\ LastStats'.d_blue = d.blue
               /\ \A p \in others \cup {r.vold} :
                     players'[p].rating
                       = players[p].rating + d.red
                           + (IF p \in r.blue THEN d.blue ELSE 0)]_vars

\* the last game applied has Voldemort outside its red roster, its two sides
\* had different averages, and Voldemort's rating moved
C17_Witness ==
    /\ statsLog # << >>
    /\ LET g == LastStats.game_id
       IN /\ games[g].exists
          /\ Rosters(g).vold \notin Rosters(g).red
          /\ Rosters(g).vold \in LastStats.red
          /\ Abs(LastStats.d_red) \notin {49, 51}
          /\ players[Rosters(g).vold].rating # INITIAL_RATING

\* C18: applying a match grants faction points to the winning roster only:
\* for a blue_* outcome every blue member gets exactly +1 social_blue and
\* nobody's social_red changes; for a red_* outcome every member of the red
\* roster gets exactly +1 social_red and nobody's social_blue changes.
C18_FactionPointsToWinners ==
    [][\A g \in GameIds :
          ApplyStep(g) =>
            LET r == Rosters(g)
                bluewin == StartsWithBlue(games[g].result_type)
            IN \A p \in Players :
                  /\ players'[p].social_blue
                       = players[p].social_blue
                           + (IF bluewin /\ p \in r.blue THEN 1 ELSE 0)
                  /\ players'[p].social_red
                       = players[p].social_red
                           + (IF ~bluewin /\ p \in r.red THEN 1 ELSE 0)]_vars

\* a red victory was applied last on a game whose Voldemort is outside the
\* red roster: the roster members hold a red point, Voldemort holds none
C18_Witness ==
    /\ statsLog # << >>
    /\ LET g == LastStats.game_id
           r == Rosters(g)
       IN /\ games[g].exists
          /\ ~StartsWithBlue(games[g].result_type)
          /\ r.vold \notin r.red
          /\ players[r.vold].social_red = 0
          /\ \A p \in r.red : players[p].social_red >= 1
          /\ \A p \in r.blue : players[p].social_blue = 0

\* C19: social_vold is granted exactly when the outcome is red_director:
\* Voldemort of such a match gets +1 social_vold, and nobody's social_vold
\* changes when a match with any other outcome is applied.
C19_VoldPointOnlyForDirector ==
    [][\A g \in GameIds :
          ApplyStep(g) =>
            \A p \in Players :
               players'[p].social_vold
                 = players[p].social_vold
                     + (IF games[g].result_type = "red_director"
                           /\ p = games[g].voldemort_id
                        THEN 1 ELSE 0)]_vars

\* a red_director game and a red_laws game with the same Voldemort have both
\* been applied, and he holds one social_vold point
C19_Witness ==
    /\ Len(statsLog) = 2
    /\ \E g, h \in GameIds :
          /\ AlreadyScored(g)
          /\ AlreadyScored(h)
          /\ games[g].result_type = "red_director"
          /\ games[h].result_type = "red_laws"
          /\ games[g].voldemort_id = games[h].voldemort_id
          /\ players[games[g].voldemort_id].social_vold = 1

\* ---- SpecOutcome: the outcome buttons of two games with saved rosters are
\* on screen (InitAdmin) and are pressed in handler tasks that run
\* concurrently, each with a session of its own.

\* the UPDATE a session's flush sends for a Game object loaded as base and
\* now holding s: only the columns whose value differs from the loaded one
FlushGame(db, base, s) ==
    [db EXCEPT !.result_type = Pick(@, base.result_type, s.result_type),
               !.killer_id = Pick(@, base.killer_id, s.killer_id)]

\* set_result_type_and_killer, line 260: the session loads the Game row
LoadGame(h, g, rt, killer) ==
    /\ setres[h].pc = "idle"
    /\ clicks.finalize < MaxFinished
    /\ clicks' = [clicks EXCEPT !.finalize = @ + 1]
    /\ games[g].exists
    /\ setres' = [setres EXCEPT ![h] =
                     [pc |-> "loaded", game |-> g, gobj |-> games[g],
                      result_type |-> rt, killer_id |-> killer]]
    /\ UNCHANGED << leaveKb, shop, call, dbVars, uiVars, games_finished, statsLog, fin, rec >>

\* set_result with an outcome other than "blue_kill", up to the load
SetResultLoad(h, rt, g) ==
    /\ g \in winnerKb
    /\ rt # "blue_kill"
    /\ LoadGame(h, g, rt, NoId)

\* picked_killer, up to the load
PickedKillerLoad(h, g, k) ==
    /\ << g, k >> \in killKb
    /\ LoadGame(h, g, "blue_kill", k)

\* set_result_type_and_killer, lines 263-265: the two assignments and the
\* commit
SetResultTypeAndKillerCommit(h) ==
    /\ setres[h].pc = "loaded"
    /\ LET t == setres[h]
           s == SetResultTypeAndKiller(t.gobj, t.result_type, t.killer_id)
       IN /\ games' = [games EXCEPT ![t.game] = FlushGame(@, t.gobj, s)]
          /\ setres' = [setres EXCEPT ![h].pc = "set", ![h].gobj = s]
    /\ UNCHANGED << leaveKb, shop, call, players, parts, purchases, uiVars, metricVars,
                    statsLog, fin, rec >>

\* the rest of the handler: apply_ratings on the Game object the session
\* holds, then metric_inc("games_finished")
ApplyRatingsInTask(h) ==
    /\ setres[h].pc = "set"
    /\ LET t == setres[h]
           r == GetTeamRosters(t.gobj, parts, t.game)
           red_ext == ExtendRedWithVold(r.red, r.vold)
           d == MmrDelta(TeamAvgs(players, r.blue, red_ext),
                         Winner(t.gobj.result_type))
       IN /\ players' = ApplyRatingsWhole(players, t.gobj, parts, t.game)
          /\ statsLog' = Append(statsLog,
                 [game_id |-> t.game, blue |-> r.blue, red |-> red_ext,
                  d_blue |-> d.blue, d_red |-> d.red])
    /\ games_finished' = games_finished + 1
    /\ setres' = [setres EXCEPT ![h] = IdleTask]
    /\ UNCHANGED << leaveKb, shop, call, games, parts, purchases, uiVars, clicks, fin, rec >>

NextOutcome ==
    \/ \E h \in Tasks, g \in GameIds, rt \in ResultTypes : SetResultLoad(h, rt, g)
    \/ \E h \in Tasks, g \in GameIds, k \in Players : PickedKillerLoad(h, g, k)
    \/ \E h \in Tasks : SetResultTypeAndKillerCommit(h)
    \/ \E h \in Tasks : ApplyRatingsInTask(h)

SpecOutcome == InitAdmin /\ [][NextOutcome]_vars

\* the step is task h applying a blue_kill match whose recorded killer is p
AppliesKillOf(h, p) ==
    /\ setres[h].pc = "set"
    /\ setres'[h].pc = "idle"
    /\ setres[h].gobj.result_type = "blue_kill"
    /\ setres[h].gobj.killer_id = p

\* C20: the elimination credit belongs to the blue_kill outcome only: in every
\* reachable state a game with a non-null killer_id has result_type
\* blue_kill, and a player's killer_points increases only when a blue_kill
\* match is applied, by exactly 1 and for the recorded killer.
C20_KillCreditOnlyForBlueKill ==
    /\ [](\A g \in GameIds :
            games[g].killer_id # NoId => games[g].result_type = "blue_kill")
    /\ [][\A p \in Players :
            players'[p].killer_points > players[p].killer_points =>
                /\ players'[p].killer_points = players[p].killer_points + 1
                /\ \E h \in Tasks : AppliesKillOf(h, p)]_vars

\* the step is the galleon commit of the finalization in flight
GalleonStep ==
    /\ fin.pc = "rated"
    /\ fin'.pc = "idle"
    /\ Len(statsLog') = Len(statsLog) + 1

\* the sides of the game the finalization in flight is applying
FinWinners ==
    IF Winner(fin.gobj.result_type) = "blue" THEN fin.blue
    ELSE ExtendRedWithVold(fin.red, fin.gobj.voldemort_id)

FinLosers ==
    IF Winner(fin.gobj.result_type) = "blue"
    THEN ExtendRedWithVold(fin.red, fin.gobj.voldemort_id)
    ELSE fin.blue

\* C21: streak counters are mutually exclusive and follow the transition
\* rule: in every reachable state each player has win_streak >= 0,
\* lose_streak >= 0 and at most one of them nonzero; applying a match sets a
\* winner's win_streak to old + 1 and lose_streak to 0, and a loser's
\* lose_streak to old + 1 and win_streak to 0.
C21_StreaksExclusive ==
    /\ [](\A p \in Players :
            /\ players[p].win_streak >= 0
            /\ players[p].lose_streak >= 0
            /\ (players[p].win_streak = 0 \/ players[p].lose_streak = 0))
    /\ [][GalleonStep =>
            /\ \A p \in FinWinners \ FinLosers :
                  /\ players'[p].win_streak = players[p].win_streak + 1
                  /\ players'[p].lose_streak = 0
            /\ \A p \in FinLosers :
                  /\ players'[p].lose_streak = players[p].lose_streak + 1
                  /\ players'[p].win_streak = 0]_vars

\* ---- SpecSeason: one lineup plays MaxSeason games, every one won by blue
\* (blue_laws) or by red (red_laws); the games are finalized one after the
\* other, in the order of their ids, each by one complete apply_ratings.
SeasonIds == 1 .. MaxSeason

SeasonOutcomes == {"blue_laws", "red_laws"}

InitSeason ==
    /\ players = [p \in Players |-> DefaultPlayer]
    /\ \E l \in Lineups, o \in [SeasonIds -> SeasonOutcomes] :
          /\ games = [g \in SeasonIds |->
                        GameRow(l, [result_type |-> o[g], killer_id |-> NoId])]
          /\ parts = UNION {LineupParts(g, l) : g \in SeasonIds}
    /\ purchases = << >>
    /\ selected_ids = {}
    /\ winnerKb = {}
    /\ killKb = {}
    /\ games_finished = 0
    /\ clicks = [finalize |-> 0, recompute |-> 0]
    /\ statsLog = << >>
    /\ fin = IdleFin
    /\ rec = IdleRec
    /\ call = NoCall
    /\ setres = IdleTasks
    /\ shop = IdleShops
    /\ leaveKb = {}

\* apply_ratings on the next game of the season
SeasonApply(g) ==
    /\ g = Len(statsLog) + 1
    /\ ~ApplyRatingsRejects(games[g])
    /\ LET r == Rosters(g)
           red_ext == ExtendRedWithVold(r.red, r.vold)
           d == MmrDelta(TeamAvgs(players, r.blue, red_ext),
                         Winner(games[g].result_type))
       IN /\ players' = ApplyRatingsWhole(players, games[g], parts, g)
          /\ statsLog' = Append(statsLog,
                 [game_id |-> g, blue |-> r.blue, red |-> red_ext,
                  d_blue |-> d.blue, d_red |-> d.red])
    /\ UNCHANGED << leaveKb, shop, call, setres, games, parts, purchases, uiVars,
                    metricVars, fin, rec >>

NextSeason == \E g \in SeasonIds : SeasonApply(g)

SpecSeason == InitSeason /\ [][NextSeason]_vars

\* player p is on the side that won game g
WonGame(p, g) ==
    LET r == Rosters(g)
    IN IF Winner(games[g].result_type) = "blue" THEN p \in r.blue
       ELSE p \in ExtendRedWithVold(r.red, r.vold)

\* the number of games p won (won = TRUE) or lost in a row, counted back from
\* game g
RECURSIVE InARow(_, _, _)
InARow(p, g, won) ==
    IF g = 0 \/ WonGame(p, g) # won THEN 0
    ELSE 1 + InARow(p, g - 1, won)

\* what a game grants p besides the streak bonus: participation, the role
\* bonus, the victory bonus
BaseGrant(p, g) ==
    1 + (IF p = games[g].voldemort_id THEN 3 ELSE 0)
      + (IF WonGame(p, g) THEN 1 ELSE 0)

\* C22: a player who wins n consecutive matches receives on the n-th win a
\* win-streak bonus of 0 for n = 1, then 2, 4, 8, 16, 32 for n = 2..6 and a
\* flat 100 for every n >= 7, on top of the participation and victory grants.
C22_WinStreakBonusTable ==
    [][\A g \in SeasonIds, p \in Players :
          (ApplyStep(g) /\ WonGame(p, g)) =>
            LET n == InARow(p, g, TRUE)
                bonus == CASE n = 1 -> 0
                           [] n = 2 -> 2
                           [] n = 3 -> 4
                           [] n = 4 -> 8
                           [] n = 5 -> 16
                           [] n = 6 -> 32
                           [] n >= 7 -> 100
            IN players'[p].galleons_balance
                 = players[p].galleons_balance + BaseGrant(p, g) + bonus]_vars

\* blue won all the games of the season: a blue player who is not Voldemort
\* holds 2 per game and the bonuses 2 + 4 + 8 + 16 + 32 + 100 per win from
\* the seventh
C22_Witness ==
    /\ Len(statsLog) = MaxSeason
    /\ \A g \in SeasonIds : games[g].result_type = "blue_laws"
    /\ \E p \in Rosters(1).blue :
          /\ players[p].win_streak = MaxSeason
          /\ players[p].galleons_balance
               = 2 * MaxSeason + 62 + 100 * (MaxSeason - 6)

\* C23: a player who loses n consecutive matches receives on the n-th loss a
\* lose-streak bonus of 2 at n = 2, 4 at n = 4, 6 at n = 6, a flat 6 at every
\* n > 6 and 0 at n = 1, 3, 5, and the +1 participation grant on every loss.
C23_LoseStreakBonusTable ==
    [][\A g \in SeasonIds, p \in Players :
          (ApplyStep(g) /\ p \in (LastStats'.blue \cup LastStats'.red)
                        /\ ~WonGame(p, g)) =>
            LET n == InARow(p, g, FALSE)
                bonus == CASE n \in {1, 3, 5} -> 0
                           [] n = 2 -> 2
                           [] n = 4 -> 4
                           [] n >= 6 -> 6
            IN players'[p].galleons_balance
                 = players[p].galleons_balance + BaseGrant(p, g) + bonus]_vars

\* red won all the games of the season: a blue player holds 1 per game and
\* the bonuses 2 + 4 + 6 and 6 per loss from the seventh
C23_Witness ==
    /\ Len(statsLog) = MaxSeason
    /\ \A g \in SeasonIds : games[g].result_type = "red_laws"
    /\ \E p \in Rosters(1).blue :
          /\ players[p].lose_streak = MaxSeason
          /\ players[p].galleons_balance = MaxSeason + 12 + 6 * (MaxSeason - 6)

\* the parts of what _apply_galleons_for_game pays player p for game g, as
\* the rules name them
ParticipationGrant(p, g) ==
    LET r == Rosters(g)
    IN IF p \in r.blue \/ p \in r.red \/ (r.vold # NoId /\ p = r.vold)
       THEN 1 ELSE 0

RoleGrant(p, g) == IF p = games[g].voldemort_id /\ p # NoId THEN 3 ELSE 0

KillerGrant(p, g) == IF p = games[g].killer_id /\ p # NoId THEN 5 ELSE 0

VictoryGrant(p, g) == IF WonGame(p, g) THEN 1 ELSE 0

\* p is on the side that lost game g
LostGame(p, g) ==
    LET r == Rosters(g)
    IN IF Winner(games[g].result_type) = "blue"
       THEN p \in ExtendRedWithVold(r.red, r.vold)
       ELSE p \in r.blue

\* the streak bonus game g pays p, keyed by the streak after the game
StreakGrant(p, g) ==
    (IF WonGame(p, g) THEN WinStreakBonus(players[p].win_streak + 1) ELSE 0)
      + (IF LostGame(p, g) THEN LoseStreakBonus(players[p].lose_streak + 1)
         ELSE 0)

\* what applying game g added to p's balance in this step
Paid(p) == players'[p].galleons_balance - players[p].galleons_balance

\* C24: the participation grant is +1 exactly once per distinct player of
\* blue, red and Voldemort: a Voldemort who is also in the red roster
\* receives it once, and a player outside the match receives nothing.
C24_ParticipationOnce ==
    [][\A g \in GameIds :
          ApplyStep(g) =>
            \A p \in Players :
               /\ Paid(p) - RoleGrant(p, g) - KillerGrant(p, g)
                    - VictoryGrant(p, g) - StreakGrant(p, g)
                    = ParticipationGrant(p, g)
               /\ ParticipationGrant(p, g) = 0 => Paid(p) = 0]_vars

\* the last game applied was lost by a Voldemort who is in its red roster,
\* his first loss: he holds 1 + 3, and the player outside the game holds 0
C24_Witness ==
    /\ Len(statsLog) = 1
    /\ LET g == LastStats.game_id
           r == Rosters(g)
       IN /\ games[g].exists
          /\ games[g].result_type = "blue_laws"
          /\ r.vold \in r.red
          /\ players[r.vold].galleons_balance = 4
          /\ \E p \in Players :
                /\ p \notin r.blue \cup r.red
                /\ players[p].galleons_balance = 0

\* C25: on every applied match Voldemort receives the +3 role bonus whatever
\* the outcome is, and the recorded killer (if any) receives +5; no other
\* player receives either bonus.
C25_RoleAndKillerBonus ==
    [][\A g \in GameIds :
          ApplyStep(g) =>
            \A p \in Players :
               Paid(p) - ParticipationGrant(p, g) - VictoryGrant(p, g)
                 - StreakGrant(p, g)
                 = (IF p = games[g].voldemort_id THEN 3 ELSE 0)
                     + (IF games[g].killer_id # NoId /\ p = games[g].killer_id
                        THEN 5 ELSE 0)]_vars

\* a blue_kill game with a recorded killer was applied first: the killer
\* holds 1 + 1 + 5 and Voldemort, who lost, 1 + 3
C25_Witness ==
    /\ Len(statsLog) = 1
    /\ LET g == LastStats.game_id
       IN /\ games[g].exists
          /\ games[g].result_type = "blue_kill"
          /\ games[g].killer_id # NoId
          /\ players[games[g].killer_id].galleons_balance = 7
          /\ players[games[g].voldemort_id].galleons_balance = 4

\* C26: the +1 victory bonus goes to every member of the winning side and to
\* no member of the losing side; the winning side of a red_* outcome is the
\* red roster extended with Voldemort (counted once), that of a blue_*
\* outcome is the blue team.
C26_VictoryBonusToWinners ==
    [][\A g \in GameIds :
          ApplyStep(g) =>
            LET r == Rosters(g)
                redwin == ~StartsWithBlue(games[g].result_type)
            IN \A p \in Players :
                  Paid(p) - ParticipationGrant(p, g) - RoleGrant(p, g)
                    - KillerGrant(p, g) - StreakGrant(p, g)
                    = IF redwin
                      THEN (IF p \in r.red \/ p = r.vold THEN 1 ELSE 0)
                      ELSE (IF p \in r.blue THEN 1 ELSE 0)]_vars

\* a red victory was applied first on a game whose Voldemort is outside the
\* red roster: he holds 1 + 3 + 1, a red roster member 1 + 1, a blue player 1
C26_Witness ==
    /\ Len(statsLog) = 1
    /\ LET g == LastStats.game_id
           r == Rosters(g)
       IN /\ games[g].exists
          /\ games[g].result_type = "red_laws"
          /\ r.vold \notin r.red
          /\ players[r.vold].galleons_balance = 5
          /\ \A p \in r.red : players[p].galleons_balance = 2
          /\ \A p \in r.blue : players[p].galleons_balance = 1

\* game g is applied in this step with outcome red_director
DirectorStep(g) == ApplyStep(g) /\ games[g].result_type = "red_director"

\* C27 as stated: when a red_director match is applied, Voldemort's
\* galleons_balance increases by exactly 5 and social_vold by 1, whatever
\* his streaks were before the match.
C27_DirectorPaysFive ==
    [][\A g \in GameIds :
          DirectorStep(g) =>
            LET v == games[g].voldemort_id
            IN /\ players'[v].galleons_balance = players[v].galleons_balance + 5
               /\ players'[v].social_vold = players[v].social_vold + 1]_vars

\* C27 amended: when a red_director match is applied, Voldemort's social_vold
\* increases by 1 and his galleons_balance by 5 plus the win-streak bonus of
\* the streak this victory brings him to: exactly 5 when he comes without a
\* win streak, 5 + 2 after one earlier victory in a row.
C27_DirectorPaysFivePlusStreak ==
    [][\A g \in GameIds :
          DirectorStep(g) =>
            LET v == games[g].voldemort_id
                n == players[v].win_streak + 1
            IN /\ players'[v].social_vold = players[v].social_vold + 1
               /\ Paid(v) = 5 + (CASE n = 1 -> 0
                                   [] n = 2 -> 2
                                   [] n = 3 -> 4
                                   [] OTHER -> WinStreakBonus(n))
               /\ players'[v].win_streak = n
               /\ players[v].lose_streak > 0 => Paid(v) = 5]_vars

\* a red_director game was applied to a Voldemort who had won the game
\* before it: the second victory in a row paid him 5 + 2
C27_Witness ==
    /\ Len(statsLog) = 2
    /\ LET g == LastStats.game_id
           v == games[g].voldemort_id
       IN /\ games[g].exists
          /\ games[g].result_type = "red_director"
          /\ players[v].win_streak = 2
          /\ players[v].social_vold = 1
          /\ \E h \in GameIds \ {g} :
                /\ games[h].exists
                /\ WonGame(v, h)
                /\ players[v].galleons_balance
                     = ParticipationGrant(v, h) + RoleGrant(v, h)
                         + KillerGrant(v, h) + 1 + 7

\* every game was finalized by one complete handler run, whatever the order,
\* and no recompute was ever started
AllFinalizedOnce ==
    /\ fin.pc = "idle"
    /\ clicks.recompute = 0
    /\ \A g \in GameIds : Finished(games, g) /\ TimesScored(g) = 1

\* C28: stored streak counters reflect ascending match-id order, never the
\* order in which the games were finalized: whichever game was finalized
\* first, each player's win_streak and lose_streak, and the balance with the
\* streak bonuses paid, are those obtained by processing game 1 and then
\* game 2, as the recompute does.
C28_StreaksFollowMatchOrder ==
    AllFinalizedOnce =>
       LET byId == RecomputeAllGalleons(players, games, parts, purchases)
       IN \A p \in Players :
             /\ players[p].win_streak = byId[p].win_streak
             /\ players[p].lose_streak = byId[p].lose_streak
             /\ players[p].galleons_balance = byId[p].galleons_balance

\* ---- SpecHistory: the bot of Spec with the roster menus left in the chat:
\* their buttons can be pressed whether or not the game has an outcome. The
\* admin stops editing with the last finalization press.
NextHistory ==
    \/ clicks.finalize < MaxFinished /\ Edit
    \/ Finalize

SpecHistory == Init /\ [][NextHistory]_vars

\* the participant rows of game g
PartsOf(ps, g) == {r \in ps : r.game_id = g}

\* C29: once a game's outcome is set the game is immutable history: no later
\* handler invocation (save_selection, pick_voldemort, set_result,
\* picked_killer) changes its rosters, its Voldemort, its outcome or its
\* killer.
C29_FinishedGameImmutable ==
    [][\A g \in GameIds :
          Finished(games, g) =>
             /\ PartsOf(parts', g) = PartsOf(parts, g)
             /\ games'[g].voldemort_id = games[g].voldemort_id
             /\ games'[g].result_type = games[g].result_type
             /\ games'[g].killer_id = games[g].killer_id]_vars

\* what the finished games q, taken in this order, grant player p who comes
\* to them with a win streak w and a lose streak l
RECURSIVE Ledger(_, _, _, _)
Ledger(p, q, w, l) ==
    IF q = << >> THEN 0
    ELSE LET g == Head(q)
             won == WonGame(p, g)
             lost == LostGame(p, g)
             w2 == IF lost THEN 0 ELSE IF won THEN w + 1 ELSE w
             l2 == IF lost THEN (IF won THEN 0 ELSE l) + 1
                   ELSE IF won THEN 0 ELSE l
         IN ParticipationGrant(p, g) + RoleGrant(p, g) + KillerGrant(p, g)
              + VictoryGrant(p, g)
              + (IF won THEN WinStreakBonus(w + 1) ELSE 0)
              + (IF lost THEN LoseStreakBonus(l2) ELSE 0)
              + Ledger(p, Tail(q), w2, l2)

\* C30: the recompute resets every derived field (rating to INITIAL_RATING,
\* the social counters, killer_points, the win counters, galleons_balance,
\* win_streak and lose_streak to 0) before replaying, so nothing of the old
\* values survives it, and after it each player's galleons_balance is the sum
\* of the per-match grants over the finished games in ascending id order
\* minus the cost of that player's purchases.
C30_RecomputeResetsAndSums ==
    LET fresh == [p \in Players |-> DefaultPlayer]
        after == FullRebuild(players, games, parts, purchases)
    IN /\ ResetGalleons(ResetWinCounters(ResetRatings(players))) = fresh
       /\ after = FullRebuild(fresh, games, parts, purchases)
       /\ \A p \in Players :
             /\ after[p].galleons_balance
                  = Ledger(p, FinishedGames(games), 0, 0)
                      - SpentBy(purchases, p)
             /\ RecomputeAllGalleons(players, games, parts,
                                     purchases)[p].galleons_balance
                  = after[p].galleons_balance

\* two finished games, never applied live, were recomputed after a purchase:
\* the buyer holds the grants of both games less the cost
C30_Witness ==
    /\ statsLog = << >>
    /\ Len(FinishedGames(games)) = MaxGames
    /\ players = FullRebuild(players, games, parts, purchases)
    /\ \E p \in Players :
          /\ SpentBy(purchases, p) > 0
          /\ players[p].galleons_balance
               = Ledger(p, << 1, 2 >>, 0, 0) - SpentBy(purchases, p)

\* ---- SpecShop: two evenings' games are finalized while the buyer presses
\* "shop:confirm" buttons; every handler is its own task with its own
\* session, and the admin may run the galleon recompute.
\* shop_confirm up to its balance check: session.get(Player, pid)
ShopConfirmLoad(h, pid, cost) ==
    /\ shop[h].pc = "idle"
    /\ Len(purchases) + Cardinality({t \in Tasks : shop[t].pc = "loaded"})
         < MaxTasks
    /\ players[pid].galleons_balance >= cost
    /\ shop' = [shop EXCEPT ![h] = [pc |-> "loaded", pid |-> pid,
                                    cost |-> cost, p |-> players[pid]]]
    /\ UNCHANGED << leaveKb, call, setres, dbVars, uiVars, metricVars, statsLog, fin,
                    rec >>

\* shop_confirm from create_purchase to session.commit(): the Purchase row
\* and the balance of the Player object the session holds, less the cost
ShopConfirmCommit(h) ==
    /\ shop[h].pc = "loaded"
    /\ LET pid == shop[h].pid
           cost == shop[h].cost
       IN /\ purchases' = Append(purchases, [player_id |-> pid, cost |-> cost])
          /\ players' = [players EXCEPT ![pid].galleons_balance =
                            Pick(@, shop[h].p.galleons_balance,
                                 shop[h].p.galleons_balance - cost)]
    /\ shop' = [shop EXCEPT ![h] = IdleShop]
    /\ UNCHANGED << leaveKb, call, setres, games, parts, uiVars, metricVars, statsLog,
                    fin, rec >>

\* recompute_all_galleons called while no finalization is between commits
RecomputeGalleonsWhole ==
    /\ fin.pc = "idle"
    /\ clicks.recompute < MaxRecomputes
    /\ clicks' = [clicks EXCEPT !.recompute = @ + 1]
    /\ players' = RecomputeAllGalleons(players, games, parts, purchases)
    /\ UNCHANGED << leaveKb, shop, call, setres, games, parts, purchases, uiVars,
                    games_finished, statsLog, fin, rec >>

NextShop ==
    \/ \E g \in GameIds, rt \in ResultTypes : SetResult(rt, g)
    \/ \E g \in GameIds, k \in Players : PickedKiller(g, k)
    \/ ApplyRatingsCommit
    \/ ApplyGalleonsCommit
    \/ \E h \in Tasks, pid \in Buyers, cost \in ShopCosts :
           ShopConfirmLoad(h, pid, cost)
    \/ \E h \in Tasks : ShopConfirmCommit(h)
    \/ RecomputeGalleonsWhole

SpecShop == InitAdmin /\ [][NextShop]_vars

\* C31: galleons_balance is never negative in a state reached through match
\* applications, shop purchases and recomputes, no game being deleted.
C31_BalanceNeverNegative ==
    \A p \in Players : players[p].galleons_balance >= 0

\* the games apply_ratings ran on to its end, in the order it did
AppliedGames == [i \in DOMAIN statsLog |-> statsLog[i].game_id]

\* every handler has returned, every finished game was applied once and no
\* recompute has rewritten the balances
ShopSettled ==
    /\ fin.pc = "idle"
    /\ \A h \in Tasks : shop[h].pc = "idle"
    /\ clicks.recompute = 0
    /\ \A g \in GameIds : TimesScored(g) = IF Finished(games, g) THEN 1 ELSE 0

\* C39: under any interleaving of shop_confirm with another shop_confirm or
\* with the galleon update of a match application for the same player, no
\* update is lost: once the handlers have returned, the player's
\* galleons_balance is the sum of the grants of the applied matches minus the
\* cost of every recorded purchase.
C39_NoLostUpdate ==
    ShopSettled =>
       \A p \in Players :
          players[p].galleons_balance
            = Ledger(p, AppliedGames, 0, 0) - SpentBy(purchases, p)

\* C33: in every state reached through the roster-editing handlers
\* (toggle_player, clear_selection, save_selection, pick_voldemort), also when
\* two editing dialogs on one game interleave, no player is in both the blue
\* and the red roster of the same game.
C33_RostersDisjoint ==
    \A g \in GameIds :
       PartIds(parts, g, {"blue"}) \cap PartIds(parts, g, {"red"}) = {}

\* get_player_streaks, lines 479-494: the (side, winner) entries game g
\* contributes for player p, one per GameParticipant row of p in a finished
\* game, or one for a game whose Voldemort p is without a row. The rows of
\* one game come in the order the database returns them: blueFirst.
StreakEntries(p, g, blueFirst) ==
    LET teams == {r.team : r \in {x \in parts : x.player_id = p
                                                 /\ x.game_id = g}}
        winner == Winner(games[g].result_type)
        b == << [side |-> "blue", winner |-> winner] >>
        r == << [side |-> "red", winner |-> winner] >>
    IN IF ~Finished(games, g) THEN << >>
       ELSE IF teams = {} THEN (IF games[g].voldemort_id = p THEN r ELSE << >>)
       ELSE IF teams = {"blue"} THEN b
       ELSE IF "blue" \notin teams THEN r
       ELSE IF blueFirst THEN b \o r ELSE r \o b

\* entries.sort(key=game id): the entries of the games from k on
RECURSIVE EntriesFrom(_, _, _)
EntriesFrom(p, k, blueFirst) ==
    IF k > MaxGames THEN << >>
    ELSE StreakEntries(p, k, blueFirst) \o EntriesFrom(p, k + 1, blueFirst)

\* get_player_streaks, lines 501-514: the scan of the entries
RECURSIVE ScanStreaks(_, _)
ScanStreaks(entries, acc) ==
    IF entries = << >> THEN acc
    ELSE LET e == Head(entries)
             next == IF e.side = e.winner
                     THEN [cur_win |-> acc.cur_win + 1, cur_lose |-> 0,
                           max_win |-> Max2(acc.max_win, acc.cur_win + 1),
                           max_lose |-> acc.max_lose]
                     ELSE [cur_win |-> 0, cur_lose |-> acc.cur_lose + 1,
                           max_win |-> acc.max_win,
                           max_lose |-> Max2(acc.max_lose, acc.cur_lose + 1)]
         IN ScanStreaks(Tail(entries), next)

NoStreaks == [cur_win |-> 0, cur_lose |-> 0, max_win |-> 0, max_lose |-> 0]

GetPlayerStreaks(p, blueFirst) ==
    ScanStreaks(EntriesFrom(p, 1, blueFirst), NoStreaks)

\* the finished games p took part in, as a team member or as Voldemort
PlayedGames(p) ==
    {g \in GameIds : /\ Finished(games, g)
                     /\ \/ p \in PartIds(parts, g, {"blue", "red"})
                        \/ games[g].voldemort_id = p}

\* C32: get_player_streaks scans the player's finished games in ascending id,
\* each game once, and returns cur_win / cur_lose equal to the win_streak /
\* lose_streak recompute_all_galleons stores for the player; max_win and
\* max_lose are the largest values the running counters reached in the scan.
C32_StreaksMatchRecompute ==
    \A p \in Players, blueFirst \in BOOLEAN :
       LET s == GetPlayerStreaks(p, blueFirst)
           e == EntriesFrom(p, 1, blueFirst)
           stored == RecomputeAllGalleons(players, games, parts, purchases)[p]
           prefixes == {ScanStreaks(SubSeq(e, 1, k), NoStreaks) :
                           k \in 0 .. Len(e)}
       IN /\ Len(e) = Cardinality(PlayedGames(p))
          /\ s.cur_win = stored.win_streak
          /\ s.cur_lose = stored.lose_streak
          /\ \A x \in prefixes : x.cur_win <= s.max_win
                                 /\ x.cur_lose <= s.max_lose
          /\ \E x \in prefixes : x.cur_win = s.max_win
          /\ \E x \in prefixes : x.cur_lose = s.max_lose

\* the records of game_stats.json entry e that carry player p: one in the
\* loop over blue, one in the loop over red
RecordsIn(e, p) ==
    (IF p \in e.blue THEN 1 ELSE 0) + (IF p \in e.red THEN 1 ELSE 0)

RECURSIVE RecordsFrom(_, _, _)
RecordsFrom(i, g, p) ==
    IF i > Len(statsLog) THEN 0
    ELSE (IF statsLog[i].game_id = g THEN RecordsIn(statsLog[i], p) ELSE 0)
           + RecordsFrom(i + 1, g, p)

\* the records of game g and player p in game_stats.json
RecordsOf(g, p) == RecordsFrom(1, g, p)

\* C34: after a match is applied the stats log holds exactly one record of
\* that game per participant (blue members with side blue, the red side with
\* Voldemort with side red), appended only after the rating and galleon
\* updates were committed; a recompute appends nothing.
C34_OneRecordPerParticipant ==
    /\ [](\A g \in GameIds, p \in Players :
             AlreadyScored(g) =>
                RecordsOf(g, p)
                  = IF \E i \in DOMAIN statsLog :
                          /\ statsLog[i].game_id = g
                          /\ p \in statsLog[i].blue \cup statsLog[i].red
                    THEN 1 ELSE 0)
    /\ [][\A g \in GameIds :
             ApplyStep(g) =>
                /\ fin.pc = "rated" /\ fin'.pc = "idle"
                /\ LastStats'.blue = fin.blue
                /\ LastStats'.red
                     = ExtendRedWithVold(fin.red, fin.gobj.voldemort_id)
                /\ rec' = rec]_vars
    /\ [][rec' # rec => statsLog' = statsLog]_vars

\* ---- SpecInOrder: the evening's games are finalized one after the other in
\* the order they were created; every handler returns before the next
\* button is pressed, and the rosters stay as saved. The admin's recompute
\* button (recompute_all_ratings) may be pressed between them.
\* set_result / picked_killer run to the end: the outcome, apply_ratings with
\* both commits, the stats entry, the metric
FinalizeInOrder(g, rt, k) ==
    /\ games[g].exists
    /\ ~Finished(games, g)
    /\ \A h \in GameIds : h < g => Finished(games, h)
    /\ IF rt = "blue_kill" THEN k \in Rosters(g).blue ELSE k = NoId
    /\ LET gobj == SetResultTypeAndKiller(games[g], rt, k)
           r == Rosters(g)
           red_ext == ExtendRedWithVold(r.red, r.vold)
           d == MmrDelta(TeamAvgs(players, r.blue, red_ext), Winner(rt))
       IN /\ games' = [games EXCEPT ![g] = gobj]
          /\ players' = ApplyRatingsWhole(players, gobj, parts, g)
          /\ statsLog' = Append(statsLog,
                 [game_id |-> g, blue |-> r.blue, red |-> red_ext,
                  d_blue |-> d.blue, d_red |-> d.red])
    /\ games_finished' = games_finished + 1
    /\ UNCHANGED << leaveKb, shop, call, setres, parts, purchases, uiVars, clicks, fin,
                    rec >>

NextInOrder ==
    \/ \E g \in GameIds, rt \in ResultTypes, k \in Players \cup {NoId} :
           FinalizeInOrder(g, rt, k)
    \/ Shop
    \/ RecomputeAllRatingsCall

SpecInOrder == InitAdmin /\ [][NextInOrder]_vars

\* the columns apply_ratings writes
LiveColumns(row) ==
    << row.rating, row.social_blue, row.social_red, row.social_vold,
       row.killer_points, row.galleons_balance, row.win_streak,
       row.lose_streak >>

\* C35: when the games are finalized in ascending id order, each applied
\* once, with no roster change afterwards and no interleaving, every player's
\* rating, social_blue, social_red, social_vold, killer_points,
\* galleons_balance, win_streak and lose_streak equal what
\* recompute_all_ratings followed by recompute_all_galleons produce.
C35_LiveEqualsRecomputeInOrder ==
    LET again == FullRebuild(players, games, parts, purchases)
    IN \A p \in Players : LiveColumns(players[p]) = LiveColumns(again[p])

\* both games were finalized, game 1 first, a purchase was made, no recompute
\* has run (the win counters are 0), and a player won game 1 and lost game 2
C35_Witness ==
    /\ AppliedGames = << 1, 2 >>
    /\ purchases # << >>
    /\ \A p \in Players : players[p].blue_wins = 0 /\ players[p].red_wins = 0
    /\ \E p \in Players : WonGame(p, 1) /\ LostGame(p, 2)
                          /\ players[p].lose_streak = 1

\* C36: for every pair of team averages and either winner, the two deltas
\* _mmr_delta returns sum to exactly +2 and both lie within [-90, 92].
C36_DeltasSumToTwo ==
    Rated =>
       /\ call.d.blue + call.d.red = 2
       /\ call.d.blue \in -90 .. 92
       /\ call.d.red \in -90 .. 92

\* a call at the cap with the weaker side winning: the extremes 92 and -90
C36_Witness ==
    /\ Rated
    /\ DiffNum(call.avgs) > 400 * DiffDen(call.avgs)
    /\ Max2(call.d.blue, call.d.red) = 92
    /\ Max2(-call.d.blue, -call.d.red) = 90

\* the step is one of the two commits of apply_ratings in the finalization
\* in flight
ApplyCommitStep ==
    \/ fin.pc = "set" /\ fin'.pc = "rated"
    \/ fin.pc = "rated" /\ fin'.pc = "idle" /\ Len(statsLog') > Len(statsLog)

\* the players of the game being applied: blue, red, Voldemort and the killer
FinParticipants ==
    LET r == GetTeamRosters(fin.gobj, parts, fin.game)
    IN GalleonTouched(r.blue, r.red, r.vold, fin.gobj.killer_id)

\* C37: applying a match changes only its participants and the game's
\* killer: every other player keeps rating, social counters, killer_points,
\* galleons_balance, win_streak and lose_streak, and no Game or
\* GameParticipant row is modified.
C37_ApplyTouchesParticipantsOnly ==
    [][ApplyCommitStep =>
          /\ \A p \in Players \ FinParticipants : players'[p] = players[p]
          /\ games' = games
          /\ parts' = parts]_vars

\* game 2 was applied after game 1 and has a player outside it who won
\* game 1: that player's row is what game 1 left
C37_Witness ==
    /\ AppliedGames = << 1, 2 >>
    /\ fin.pc = "idle"
    /\ clicks.recompute = 0
    /\ \E p \in Players :
          /\ p \notin PartIds(parts, 2, {"blue", "red"})
          /\ p # games[2].voldemort_id
          /\ p # games[2].killer_id
          /\ WonGame(p, 1)
          /\ players[p].win_streak = 1
          /\ players[p].rating > INITIAL_RATING

\* the finished games won by the red side
RedWins == {g \in GameIds : Finished(games, g)
                            /\ Winner(games[g].result_type) = "red"}

MaybeWarnUnfinished(g) ==
    /\ games[g].exists
    /\ games[g].result_type = NoResult
    /\ g \notin leaveKb
    /\ leaveKb' = leaveKb \cup {g}
    /\ UNCHANGED << shop, call, setres, dbVars, selected_ids, winnerKb, killKb,
                    metricVars, statsLog, fin, rec >>

\* leave_confirm on the button "leave:confirm:g:target": delete_game(g), then
\* the message is replaced by the target section
LeaveConfirm(g) ==
    /\ g \in leaveKb
    /\ IF games[g].exists
       THEN /\ games' = DeleteGameRow(games, g)
            /\ parts' = DeleteGameParts(parts, g)
       ELSE UNCHANGED << games, parts >>
    /\ leaveKb' = leaveKb \ {g}
    /\ UNCHANGED << shop, call, setres, players, purchases, selected_ids,
                    winnerKb, killKb, metricVars, statsLog, fin, rec >>

\* leave_stay on the button "leave:stay:g": the message shows the game again
LeaveStay(g) ==
    /\ g \in leaveKb
    /\ leaveKb' = leaveKb \ {g}
    /\ UNCHANGED << shop, call, setres, dbVars, selected_ids, winnerKb, killKb,
                    metricVars, statsLog, fin, rec >>

NextLeave ==
    \/ \E g \in GameIds, rt \in ResultTypes : SetResult(rt, g)
    \/ \E g \in GameIds, k \in Players : PickedKiller(g, k)
    \/ ApplyRatingsCommit
    \/ ApplyGalleonsCommit
    \/ \E g \in GameIds : MaybeWarnUnfinished(g)
    \/ \E g \in GameIds : LeaveConfirm(g)
    \/ \E g \in GameIds : LeaveStay(g)

SpecLeave == InitAdmin /\ [][NextLeave]_vars

\* C40: the abandon-creation path deletes only unfinished games: no step of
\* leave_confirm removes a game whose result_type is set, also when the
\* confirmation button was shown before the game was finalized and is
\* pressed after it, so the row and the rosters of a scored game stay.
C40_LeaveDeletesOnlyUnfinished ==
    [][\A g \in GameIds :
          Finished(games, g) =>
             /\ games'[g].exists
             /\ DeleteGameParts(parts', g) # parts']_vars

====
